---- MODULE Spec2Model ----
(***************************************************************************)
(* A model of the page-based index engine: the pager with its LRU cache,   *)
(* the btpage page codec, the self-contained B+ tree (bptree.go) and the   *)
(* generic tree engine (shared.Tree) bound to a node accessor.             *)
(*                                                                         *)
(* Pages are modelled byte for byte: a page is a function from the byte    *)
(* offsets 0..PageSize-1 to 0..255, and every header field, cell pointer   *)
(* and cell is read and written through the little-endian codec, so that   *)
(* overlapping writes behave as they do in the program.  An int64 key is   *)
(* kept as its 8 little-endian bytes; a uint32 page id is kept as the      *)
(* integer with the same 32 bits in two's complement (0xFFFFFFFF is -1).   *)
(***************************************************************************)
EXTENDS Integers, Sequences, FiniteSets, TLC

VARIABLES
    impl,       \* which index is open: "BPTree", "BTreeAcc" or "BPTreeAcc"
    pageCount,  \* Pager.pageCount
    disk,       \* the block file: block id -> page bytes
    cache,      \* Pager.cache, the lruCache
    rootID,     \* the tree's root id (BPTree.rootID / Tree.RootID)
    status,     \* "open", or "crashed" after a Go panic or an endless loop
    it,         \* the RangeIterator of the B+ tree
    ret,        \* what the last operation was and what it returned
    stored,     \* history: key -> value of the most recent Insert of that key
    distinct,   \* history: no key has been inserted twice so far
    inserts,    \* history: the number of Insert calls so far
    reads,      \* history: the number of Get and Range calls so far
    recency,    \* history: cache ids, most recently touched first
    twin,       \* the same calls made on an index with another cache capacity
    mem         \* the in-memory index that is open: an LSM tree or a B-tree

vars == <<impl, pageCount, disk, cache, rootID, status, it, ret, stored, distinct, inserts,
          reads, recency, twin, mem>>

\* no second index is run
NoTwin == [status |-> "none"]

\* no in-memory index is run
NoMem == [kind |-> "none"]

---------------------------------------------------------------------------
(* Bounds of the model *)

\* Bytes per page in the model.  The program's pager.PageSize is 4096; the
\* layout arithmetic is the program's, on a page small enough that a few
\* cells fill it.
PageSize == 48
\* Keys inserted are 1..MaxKey.
MaxKey == 4
\* Inserts are taken while the file holds fewer than MaxPages blocks.
MaxPages == 8
\* A run makes at most MaxInserts Insert calls.
MaxInserts == 4
\* A run makes at most MaxReads Get and Range calls.
MaxReads == 1
\* Cache capacities tried are 1..MaxCap.
MaxCap == 2
\* Block ids used by the cache-only specification are 0..MaxId.
MaxId == 3

---------------------------------------------------------------------------
(* Program constants *)

TypeInternal == 0
TypeLeaf == 1
OffType == 0
OffNumCells == 1
OffCellContent == 3
OffRightmost == 5
OffNextLeaf == 9
OffCellPtrs == 13
CellPtrSize == 2
\* btpage.InvalidPage = uint32(0xFFFFFFFF), as a 32-bit two's complement integer
InvalidPage == -1
internalCellSize == 4 + 8

\* Go's nil for an *lruEntry (no block has this id)
NilEntry == -2

---------------------------------------------------------------------------
(* encoding/binary.LittleEndian over a page *)

Pos == 0 .. (PageSize - 1)

\* new(pager.Page): all bytes zero
ZeroPage == [i \in Pos |-> 0] @@ <<>>

\* byte j of the little-endian encoding of v, for 0 <= v < 2^31
LEByte(v, j) == IF j > 3 THEN 0 ELSE (v \div (256 ^ j)) % 256

\* byte j of the uint32 whose two's complement reading is v
U32Byte(v, j) == IF v >= 0 THEN LEByte(v, j) ELSE 255 - LEByte(-(v + 1), j)

PutUint16(b, o, v) == [b EXCEPT ![o] = LEByte(v, 0), ![o + 1] = LEByte(v, 1)]
PutUint32(b, o, v) ==
    [b EXCEPT ![o] = U32Byte(v, 0), ![o + 1] = U32Byte(v, 1),
              ![o + 2] = U32Byte(v, 2), ![o + 3] = U32Byte(v, 3)]
PutUint64(b, o, v) ==
    [b EXCEPT ![o] = LEByte(v, 0), ![o + 1] = LEByte(v, 1),
              ![o + 2] = LEByte(v, 2), ![o + 3] = LEByte(v, 3),
              ![o + 4] = 0, ![o + 5] = 0, ![o + 6] = 0, ![o + 7] = 0]

Uint16(b, o) == b[o] + 256 * b[o + 1]
Uint32(b, o) ==
    b[o] + 256 * b[o + 1] + 65536 * b[o + 2]
         + 16777216 * (IF b[o + 3] < 128 THEN b[o + 3] ELSE b[o + 3] - 256)
\* the low four bytes of a uint64 whose high four bytes are zero
Uint64(b, o) == Uint32(b, o)

\* an int64 key as its eight bytes, least significant first
Enc64(k) == <<LEByte(k, 0), LEByte(k, 1), LEByte(k, 2), LEByte(k, 3), 0, 0, 0, 0>>
Key64(b, o) ==
    <<b[o], b[o + 1], b[o + 2], b[o + 3], b[o + 4], b[o + 5], b[o + 6], b[o + 7]>>
PutKey64(b, o, key) ==
    [b EXCEPT ![o] = key[1], ![o + 1] = key[2], ![o + 2] = key[3], ![o + 3] = key[4],
              ![o + 4] = key[5], ![o + 5] = key[6], ![o + 6] = key[7],
              ![o + 7] = key[8]]

\* signed comparison of two int64 keys
Rank64(a, j) == IF j = 8 THEN (a[8] + 128) % 256 ELSE a[j]
KeyLess(a, c) ==
    \E j \in 1 .. 8 :
        /\ Rank64(a, j) < Rank64(c, j)
        /\ \A m \in (j + 1) .. 8 : a[m] = c[m]

\* uint16(x) of an int
U16(x) == x % 65536

---------------------------------------------------------------------------
(* btpage: the page header and the slotted cell area.                      *)
(* A page being worked on is a handle [b, ok]: its bytes, and ok = FALSE   *)
(* once a slice expression went out of the page's bounds (a Go panic).     *)

Handle(b) == [b |-> b, ok |-> TRUE]
Panicked(h) == [h EXCEPT !.ok = FALSE]

\* whether p[o : o+w] is a legal slice of a page
InPage(o, w) == o >= 0 /\ o + w <= PageSize

NumCells(b) == Uint16(b, OffNumCells)
SetNumCells(h, n) == [h EXCEPT !.b = PutUint16(@, OffNumCells, U16(n))]
CellContent(b) == Uint16(b, OffCellContent)
SetCellContent(h, v) == [h EXCEPT !.b = PutUint16(@, OffCellContent, v)]
Rightmost(b) == Uint32(b, OffRightmost)
SetRightmost(h, id) == [h EXCEPT !.b = PutUint32(@, OffRightmost, id)]
NextLeaf(b) == Uint32(b, OffNextLeaf)
SetNextLeaf(h, id) == [h EXCEPT !.b = PutUint32(@, OffNextLeaf, id)]

CellPtrInPage(i) == InPage(OffCellPtrs + i * CellPtrSize, 2)
CellPtr(b, i) == Uint16(b, OffCellPtrs + i * CellPtrSize)
SetCellPtr(h, i, off) ==
    IF h.ok /\ CellPtrInPage(i)
    THEN [h EXCEPT !.b = PutUint16(@, OffCellPtrs + i * CellPtrSize, off)]
    ELSE Panicked(h)

InitPage(h, pt) ==
    SetNextLeaf(
        SetCellContent(
            SetNumCells([h EXCEPT !.b = [ZeroPage EXCEPT ![OffType] = pt]], 0),
            U16(PageSize)),
        InvalidPage)

FreeSpace(b, n) == CellContent(b) - (OffCellPtrs + n * CellPtrSize)

\* AllocCell returns top as an int (it may be negative) and stores uint16(top)
AllocTop(b, size) == CellContent(b) - size
\* an AllocCell that leaves the free-space-top where it was
allocCellTopKept(h, size) == SetCellContent(h, CellContent(h.b))
AllocCell(h, size) == SetCellContent(h, U16(AllocTop(h.b, size)))

\* With(v, F) is F(v): it names a value that is computed once
With(v, F(_)) == F(v)

---------------------------------------------------------------------------
(* lruCache: a map from block id to entry, and the entries linked from     *)
(* head (most recent) to tail (least recent).  An entry is named by its    *)
(* id; prev and next hold the neighbour's id or NilEntry.                  *)

newLRUCache(cap) ==
    [cap |-> cap, items |-> <<>>, head |-> NilEntry, tail |-> NilEntry]

pushFront(c, e) ==
    LET i1 == [c.items EXCEPT ![e].next = c.head, ![e].prev = NilEntry]
        i2 == IF c.head # NilEntry THEN [i1 EXCEPT ![c.head].prev = e] ELSE i1
    IN  [c EXCEPT !.items = i2,
                  !.head = e,
                  !.tail = IF c.tail = NilEntry THEN e ELSE c.tail]

\* a moveToFront that leaves tail as it is
moveToFrontKeepTail(c, e) ==
    IF c.head = e THEN c
    ELSE LET en == c.items[e]
             i1 == IF en.prev # NilEntry
                   THEN [c.items EXCEPT ![en.prev].next = en.next] ELSE c.items
             i2 == IF en.next # NilEntry
                   THEN [i1 EXCEPT ![en.next].prev = en.prev] ELSE i1
             i3 == [i2 EXCEPT ![e].prev = NilEntry, ![e].next = c.head]
             i4 == IF c.head # NilEntry THEN [i3 EXCEPT ![c.head].prev = e] ELSE i3
         IN  [c EXCEPT !.items = i4, !.head = e]

moveToFront(c, e) ==
    IF c.head = e THEN c
    ELSE LET en == c.items[e]
             i1 == IF en.prev # NilEntry
                   THEN [c.items EXCEPT ![en.prev].next = en.next] ELSE c.items
             i2 == IF en.next # NilEntry
                   THEN [i1 EXCEPT ![en.next].prev = en.prev] ELSE i1
             tl == IF c.tail = e THEN en.prev ELSE c.tail
             i3 == [i2 EXCEPT ![e].prev = NilEntry, ![e].next = c.head]
             i4 == IF c.head # NilEntry THEN [i3 EXCEPT ![c.head].prev = e] ELSE i3
         IN  [c EXCEPT !.items = i4, !.head = e, !.tail = tl]

evictHead(c) ==
    IF c.head = NilEntry THEN c
    ELSE LET h == c.head
             nx == c.items[h].next
             i1 == IF nx # NilEntry THEN [c.items EXCEPT ![nx].prev = NilEntry]
                   ELSE c.items
         IN  [c EXCEPT !.items = [i \in (DOMAIN i1) \ {h} |-> i1[i]] @@ <<>>,
                       !.head = nx,
                       !.tail = IF nx = NilEntry THEN NilEntry ELSE c.tail]

evict(c) ==
    IF c.tail = NilEntry THEN c
    ELSE LET t == c.tail
             pv == c.items[t].prev
             i1 == IF pv # NilEntry THEN [c.items EXCEPT ![pv].next = NilEntry]
                   ELSE c.items
         IN  [c EXCEPT !.items = [i \in (DOMAIN i1) \ {t} |-> i1[i]] @@ <<>>,
                       !.tail = pv,
                       !.head = IF pv = NilEntry THEN NilEntry ELSE c.head]

\* get returns the cache after the call, whether id was cached, and its page
get(c, id) ==
    IF id \notin DOMAIN c.items
    THEN [c |-> c, hit |-> FALSE, page |-> ZeroPage]
    ELSE [c |-> moveToFront(c, id), hit |-> TRUE, page |-> c.items[id].page]

put(c, id, pg) ==
    IF id \in DOMAIN c.items
    THEN moveToFront([c EXCEPT !.items[id].page = pg], id)
    ELSE With(pushFront([c EXCEPT !.items =
                            (id :> [page |-> pg, prev |-> NilEntry, next |-> NilEntry])
                                @@ c.items],
                        id), LAMBDA c2 :
              IF Cardinality(DOMAIN c2.items) > c2.cap THEN evict(c2) ELSE c2)

---------------------------------------------------------------------------
(* Pager over the execution state x = [pageCount, disk, cache, ...]        *)

\* WriteAt at id * PageSize; a write past the end fills the gap with zeros
writePageToDisk(d, id, b) ==
    IF id \in DOMAIN d THEN [d EXCEPT ![id] = b]
    ELSE (id :> b) @@ d @@ [i \in 0 .. (id - 1) |-> ZeroPage]

\* writePageCount: block 0 keeps its other bytes once the file has data
writePageCount(d, count) ==
    LET hdr == IF count > 1 /\ 0 \in DOMAIN d THEN d[0] ELSE ZeroPage
    IN  writePageToDisk(d, 0, PutUint64(hdr, 0, count))

\* pager.Open on a path that holds no file yet
PagerOpen(cap) ==
    [pageCount |-> 1,
     disk |-> writePageCount(<<>>, 1),
     cache |-> newLRUCache(cap)]

\* The file fails one access: x.fuel accesses succeed, the next one returns
\* an error, every later one succeeds; x.fuel = NoFault is a file that never
\* fails.  x.failed: an access has failed; x.werr: the last Write or Allocate
\* returned an error; x.after: the Write and Allocate calls made since the
\* failure; x.rootAtFail: the root id at the failure.
NoFault == 0 - 1
Fails(x) == x.fuel = 0
Tick(x) == [x EXCEPT !.fuel = IF @ >= 0 THEN @ - 1 ELSE @]
Erred(x) ==
    [Tick(x) EXCEPT !.failed = TRUE, !.werr = TRUE,
                    !.rootAtFail = IF x.failed THEN @ ELSE x.rootID]
Called(x) == [x EXCEPT !.werr = FALSE, !.after = IF x.failed THEN @ + 1 ELSE @]

\* an error return of Write that the caller hands on
Must(y) == IF y.werr THEN [y EXCEPT !.st = "err"] ELSE y

\* an Allocate that extends the file and leaves the count in block 0 as it was
allocateUnpersisted(x) ==
    [x |-> [x EXCEPT !.pageCount = x.pageCount + 1,
                     !.disk = writePageToDisk(@, x.pageCount, ZeroPage)],
     id |-> x.pageCount, err |-> FALSE]

\* Allocate: the count goes up first; when the blank block or the count
\* cannot be written the call returns id 0 and the error
Allocate(x) ==
    With(Called([x EXCEPT !.pageCount = x.pageCount + 1]), LAMBDA c :
    IF Fails(c) THEN [x |-> Erred(c), id |-> 0, err |-> TRUE]
    ELSE
    With([Tick(c) EXCEPT !.disk = writePageToDisk(@, x.pageCount, ZeroPage)], LAMBDA c1 :
    IF Fails(c1) THEN [x |-> Erred(c1), id |-> 0, err |-> TRUE]
    ELSE [x |-> [Tick(c1) EXCEPT !.disk = writePageCount(@, x.pageCount + 1)],
          id |-> x.pageCount, err |-> FALSE]))

\* Read: the state after the call, the page, and whether the read failed
\* (every call is noted in x.rl, the ids Read was called with)
Saw(x, id) == [x EXCEPT !.rl = Append(@, id)]
Read(x0, id) ==
    With(Saw(x0, id), LAMBDA x :
    With(get(x.cache, id), LAMBDA g :
    IF g.hit THEN [x |-> [x EXCEPT !.cache = g.c], b |-> g.page, err |-> FALSE]
    ELSE IF id \notin DOMAIN x.disk THEN [x |-> x, b |-> ZeroPage, err |-> TRUE]
    ELSE IF Fails(x) THEN [x |-> Erred(x), b |-> ZeroPage, err |-> TRUE]
    ELSE [x |-> [Tick(x) EXCEPT !.cache = put(@, id, x.disk[id])],
          b |-> x.disk[id], err |-> FALSE]))

\* a Write that reaches the cache and not the file
writeCacheOnly(x, id, b) == [x EXCEPT !.cache = put(@, id, b)]

\* Write: the page is in the cache before the file is written
\* a write that reached the file, noted for the history: the block written,
\* the root id block 1 holds on disk after it, and whether the block of that
\* id has been written since it was allocated (btree.go keeps its nodes
\* decoded, its writes are not noted)
Wrote(x, id) ==
    IF impl = "BTree" THEN x ELSE
    With(IF 1 \in DOMAIN x.disk THEN Uint32(x.disk[1], 0) ELSE 0, LAMBDA root :
    [x EXCEPT !.writes = Append(@,
        [id |-> id, root |-> root,
         valid |-> root \in DOMAIN x.disk /\ x.disk[root] # ZeroPage])])

Write(x, id, b) ==
    With(Called([x EXCEPT !.cache = put(@, id, b)]), LAMBDA c :
    IF Fails(c) THEN Erred(c)
    ELSE Wrote([Tick(c) EXCEPT !.disk = writePageToDisk(@, id, b)], id))

---------------------------------------------------------------------------
(* Cells.  A value is the tuple of its bytes; NilValue is Go's nil slice.  *)
(* A cell read is [key, value, leftChild, ok]: ok = FALSE when a slice of  *)
(* the read went out of the page (a Go panic).                             *)

NilValue == <<-1>>
LenV(v) == IF v = NilValue THEN 0 ELSE Len(v)
ZeroKey == <<0, 0, 0, 0, 0, 0, 0, 0>>
BadCell == [key |-> ZeroKey, value |-> NilValue, leftChild |-> 0, ok |-> FALSE]

\* copy(p[o:], value): as many bytes as fit before the end of the page
RECURSIVE CopyFrom(_, _, _, _)
CopyFrom(b, o, value, j) ==
    IF j > LenV(value) \/ o + j - 1 >= PageSize THEN b
    ELSE CopyFrom([b EXCEPT ![o + j - 1] = value[j]], o, value, j + 1)
CopyValue(b, o, value) == CopyFrom(b, o, value, 1)
ValueAt(b, o, vl) == [j \in 1 .. vl |-> b[o + j - 1]] \o <<>>

\* bptree.go, internal cell: [0-3] left child, [4-11] key
readInternalCell(b, i) ==
    IF ~CellPtrInPage(i) THEN BadCell
    ELSE LET off == CellPtr(b, i) IN
         IF ~InPage(off, 12) THEN BadCell
         ELSE [key |-> Key64(b, off + 4), value |-> NilValue,
               leftChild |-> Uint32(b, off), ok |-> TRUE]

writeInternalCell(h, off, key, leftChild) ==
    IF h.ok /\ InPage(off, 12)
    THEN [h EXCEPT !.b = PutKey64(PutUint32(@, off, leftChild), off + 4, key)]
    ELSE Panicked(h)

appendInternalCell(h, key, leftChild) ==
    LET n == NumCells(h.b)
        off == AllocTop(h.b, internalCellSize)
    IN  SetNumCells(
            SetCellPtr(
                writeInternalCell(AllocCell(h, internalCellSize), off, key, leftChild),
                n, U16(off)),
            n + 1)

\* bptree.go, leaf cell: [0-7] key, [8-9] value length, [10+] value
leafCellSize(value) == 8 + 2 + LenV(value)

readLeafCell(b, i) ==
    IF ~CellPtrInPage(i) THEN BadCell
    ELSE LET off == CellPtr(b, i) IN
         IF ~InPage(off, 10) THEN BadCell
         ELSE LET vl == Uint16(b, off + 8) IN
              IF ~InPage(off + 10, vl) THEN BadCell
              ELSE [key |-> Key64(b, off), value |-> ValueAt(b, off + 10, vl),
                    leftChild |-> 0, ok |-> TRUE]

writeLeafCell(h, off, key, value) ==
    IF h.ok /\ InPage(off, 10)
    THEN [h EXCEPT !.b =
             CopyValue(PutUint16(PutKey64(@, off, key), off + 8, U16(LenV(value))),
                       off + 10, value)]
    ELSE Panicked(h)

\* BTreeAcc (the non-chained accessor), leaf and internal cell alike:
\* [0-3] left child, [4-11] key, [12-13] value length, [14+] value
BTreeAcc_CellSize(value) == 4 + 8 + 2 + LenV(value)

BTreeAcc_ReadCell(b, i) ==
    IF ~CellPtrInPage(i) THEN BadCell
    ELSE LET off == CellPtr(b, i) IN
         IF ~InPage(off, 14) THEN BadCell
         ELSE LET vl == Uint16(b, off + 12) IN
              IF ~InPage(off + 14, vl) THEN BadCell
              ELSE [key |-> Key64(b, off + 4), value |-> ValueAt(b, off + 14, vl),
                    leftChild |-> Uint32(b, off), ok |-> TRUE]

BTreeAcc_WriteCell(h, off, key, value, leftChild) ==
    IF h.ok /\ InPage(off, 14)
    THEN [h EXCEPT !.b =
             CopyValue(
                 PutUint16(PutKey64(PutUint32(@, off, leftChild), off + 4, key),
                           off + 12, U16(LenV(value))),
                 off + 14, value)]
    ELSE Panicked(h)

\* The accessor bound to the generic tree: acc is "BTreeAcc" or "BPTreeAcc".
CopyUpLeaves(acc) == acc = "BPTreeAcc"

CellSize(acc, leaf, value) ==
    IF acc = "BTreeAcc" THEN BTreeAcc_CellSize(value)
    ELSE IF leaf THEN leafCellSize(value) ELSE internalCellSize

ReadCell(acc, b, i, leaf) ==
    IF acc = "BTreeAcc" THEN BTreeAcc_ReadCell(b, i)
    ELSE IF leaf THEN readLeafCell(b, i) ELSE readInternalCell(b, i)

WriteCell(acc, h, off, key, value, leftChild, leaf) ==
    IF acc = "BTreeAcc" THEN BTreeAcc_WriteCell(h, off, key, value, leftChild)
    ELSE IF leaf THEN writeLeafCell(h, off, key, value)
    ELSE writeInternalCell(h, off, key, leftChild)

\* OverwriteValue: the value length and the value, into cell i's own slot
OverwriteValue(acc, h, i, newVal, leaf) ==
    With(ReadCell(acc, h.b, i, leaf), LAMBDA c :
    IF ~h.ok \/ ~c.ok THEN Panicked(h)
    ELSE IF acc = "BPTreeAcc" /\ ~leaf THEN h
    ELSE WriteCell(acc, h, CellPtr(h.b, i), c.key, newVal, c.leftChild, leaf))

LinkLeaves(acc, left, right, newRightID, oldNext) ==
    IF acc = "BPTreeAcc"
    THEN [left |-> SetNextLeaf(left, newRightID), right |-> SetNextLeaf(right, oldNext)]
    ELSE [left |-> left, right |-> right]

---------------------------------------------------------------------------
(* Searching and editing the cell pointer array *)

\* FindIdx, findInternalIdx, findLeafIdx: the first index in lo..hi-1 whose
\* key is not below key, by bisection on the keys read
RECURSIVE FindIdxFrom(_, _, _, _, _, _)
FindIdxFrom(acc, b, key, lo, hi, leaf) ==
    IF lo >= hi THEN [idx |-> lo, ok |-> TRUE]
    ELSE With(ReadCell(acc, b, (lo + hi) \div 2, leaf), LAMBDA c :
         IF ~c.ok THEN [idx |-> 0, ok |-> FALSE]
         ELSE IF KeyLess(c.key, key)
              THEN FindIdxFrom(acc, b, key, ((lo + hi) \div 2) + 1, hi, leaf)
              ELSE FindIdxFrom(acc, b, key, lo, (lo + hi) \div 2, leaf))

FindIdx(b, key, n, acc, leaf) == FindIdxFrom(acc, b, key, 0, n, leaf)
findInternalIdx(b, key, n) == FindIdxFrom("BPTreeAcc", b, key, 0, n, FALSE)
findLeafIdx(b, key, n) == FindIdxFrom("BPTreeAcc", b, key, 0, n, TRUE)

\* ChildAt, internalChildAt: the child left of cell idx, or the rightmost child
ChildAt(b, idx, n, acc) ==
    IF idx = n THEN [id |-> Rightmost(b), ok |-> TRUE]
    ELSE With(ReadCell(acc, b, idx, FALSE), LAMBDA c : [id |-> c.leftChild, ok |-> c.ok])
internalChildAt(b, idx, n) == ChildAt(b, idx, n, "BPTreeAcc")

\* for i := n; i > idx; i-- { SetCellPtr(p, i, CellPtr(p, i-1)) }
RECURSIVE ShiftPtrsUp(_, _, _)
ShiftPtrsUp(h, i, idx) ==
    IF i <= idx \/ ~h.ok THEN h
    ELSE ShiftPtrsUp(SetCellPtr(h, i, CellPtr(h.b, i - 1)), i - 1, idx)

\* for j := i; j < n-1; j++ { SetCellPtr(p, j, CellPtr(p, j+1)) }
RECURSIVE ShiftPtrsDown(_, _, _)
ShiftPtrsDown(h, j, n) ==
    IF j >= n - 1 \/ ~h.ok THEN h
    ELSE IF ~CellPtrInPage(j + 1) THEN Panicked(h)
    ELSE ShiftPtrsDown(SetCellPtr(h, j, CellPtr(h.b, j + 1)), j + 1, n)

\* DeleteCell, deleteLeafCell
DeleteCell(h, i) ==
    LET n == NumCells(h.b) IN SetNumCells(ShiftPtrsDown(h, i, n), n - 1)
deleteLeafCell(h, i) == DeleteCell(h, i)

\* Tree.AppendCell
AppendCell(acc, h, key, value, leftChild) ==
    LET n == NumCells(h.b)
        leaf == h.b[OffType] = TypeLeaf
        size == CellSize(acc, leaf, value)
        off == AllocTop(h.b, size)
    IN  SetNumCells(
            SetCellPtr(
                WriteCell(acc, AllocCell(h, size), off, key, value, leftChild, leaf),
                n, U16(off)),
            n + 1)

\* whether cells 0..n-1 can all be read without a slice leaving the page
CellsReadable(acc, b, n, leaf) == \A i \in 0 .. (n - 1) : ReadCell(acc, b, i, leaf).ok

\* the cells 0..n-1 of a page, in cell-pointer order
CellsOf(acc, b, n, leaf) == [i \in 1 .. n |-> ReadCell(acc, b, i - 1, leaf)] \o <<>>

\* all := cells with the new one put at index idx (0-based)
InsertAt(cells, idx, c) ==
    SubSeq(cells, 1, idx) \o <<c>> \o SubSeq(cells, idx + 1, Len(cells))

KeysOf(cells) == [i \in 1 .. Len(cells) |-> cells[i].key] \o <<>>

---------------------------------------------------------------------------
(* Tree operations run over an execution state                             *)
(*   x = [pageCount, disk, cache, rootID, st, log]                         *)
(* st is "ok", "err" (an error was returned), "panic" (a slice left the    *)
(* page) or "hang" (a descent or a chain walk that never ends); log is the *)
(* list of the splits the running Insert has made.                         *)
(* An insert step returns [x, mk, mv, rc, split]: the promoted key and     *)
(* value, the new right page and whether the page split.                   *)

\* more pages than a descent can visit without visiting one twice
MaxDepth == MaxPages + 4

Crash(x) == [x EXCEPT !.st = "panic"]
Hang(x) == [x EXCEPT !.st = "hang"]
Failed(x) == [x EXCEPT !.st = "err"]
Res(x, mk, mv, rc, split) == [x |-> x, mk |-> mk, mv |-> mv, rc |-> rc, split |-> split]
NoSplit(x) == Res(x, ZeroKey, NilValue, 0, FALSE)

\* the keys a page holds, as they read afterwards (<<>> if they cannot be read)
KeysIn(acc, b) ==
    LET n == NumCells(b)
        leaf == b[OffType] = TypeLeaf
    IN  IF CellsReadable(acc, b, n, leaf) THEN KeysOf(CellsOf(acc, b, n, leaf))
        ELSE <<>>

\* a split, noted for the history: what the page held, what was inserted,
\* what was promoted and what the two pages hold afterwards
\* and the call as it was made: the page before, the cells all, the index
\* idx and the right child rc of the new cell, the promoted value mv
Call(old, all, idx, rc, mv) == [old |-> old, all |-> all, idx |-> idx, rc |-> rc, mv |-> mv]

Logged(x, acc, leaf, id, newID, pre, key, promoted, left, right, call) ==
    [x EXCEPT !.log = Append(@,
        [leaf |-> leaf, copyUp |-> leaf /\ CopyUpLeaves(acc), id |-> id, newID |-> newID,
         pre |-> pre, key |-> key, promoted |-> promoted,
         left |-> KeysIn(acc, left), right |-> KeysIn(acc, right),
         leftPage |-> left, rightPage |-> right, call |-> call])]

---------------------------------------------------------------------------
(* BPTree (bptree.go) *)

\* the cell-writing loops of splitLeaf: cells all[i..last] into slots i-base..
RECURSIVE fillLeaf(_, _, _, _, _)
fillLeaf(h, all, i, last, base) ==
    IF i > last \/ ~h.ok THEN h
    ELSE LET size == leafCellSize(all[i + 1].value)
             off == AllocTop(h.b, size)
         IN  fillLeaf(
                 SetCellPtr(
                     writeLeafCell(AllocCell(h, size), off, all[i + 1].key, all[i + 1].value),
                     i - base, U16(off)),
                 all, i + 1, last, base)

splitLeaf(x, id, h, n, idx, key, value) ==
    IF ~CellsReadable("BPTreeAcc", h.b, n, TRUE) THEN NoSplit(Crash(x))
    ELSE
    With(CellsOf("BPTreeAcc", h.b, n, TRUE), LAMBDA pre :
    With(InsertAt(pre, idx, [BadCell EXCEPT !.key = key, !.value = value]), LAMBDA all :
    With(Allocate(x), LAMBDA a :
    LET mid == (n + 1) \div 2
        newID == a.id
        oldNext == NextLeaf(h.b)
        right0 == SetNextLeaf(InitPage(Handle(ZeroPage), TypeLeaf), oldNext)
        p0 == SetNextLeaf(InitPage(SetNextLeaf(h, newID), TypeLeaf), newID)
    IN
    With(SetNumCells(fillLeaf(p0, all, 0, mid - 1, 0), mid), LAMBDA p1 :
    With(SetNumCells(fillLeaf(right0, all, mid, n, mid), n + 1 - mid), LAMBDA r1 :
    IF ~p1.ok \/ ~r1.ok THEN NoSplit(Crash(a.x))
    ELSE Res(Logged(Write(Write(a.x, id, p1.b), newID, r1.b),
                    "BPTreeAcc", TRUE, id, newID, KeysOf(pre), key,
                    all[mid + 1].key, p1.b, r1.b,
                    Call(h.b, all, idx, 0, NilValue)),
             all[mid + 1].key, NilValue, newID, TRUE))))))

insertLeaf(x, id, b, key, value) ==
    With(NumCells(b), LAMBDA n0 :
    With(findLeafIdx(b, key, n0), LAMBDA s :
    With(IF s.ok /\ s.idx < n0 THEN readLeafCell(b, s.idx) ELSE BadCell, LAMBDA c :
    LET h == Handle(b)
        idx == s.idx
        existing == idx < n0 /\ c.ok /\ c.key = key
        n == IF existing THEN n0 - 1 ELSE n0
        size == leafCellSize(value)
    IN
    IF ~s.ok \/ (idx < n0 /\ ~c.ok) THEN NoSplit(Crash(x))
    ELSE IF existing /\ LenV(value) <= LenV(c.value)
    THEN With(writeLeafCell(h, CellPtr(b, idx), key, value), LAMBDA h1 :
         IF ~h1.ok THEN NoSplit(Crash(x)) ELSE NoSplit(Must(Write(x, id, h1.b))))
    ELSE With(IF existing THEN deleteLeafCell(h, idx) ELSE h, LAMBDA h1 :
         IF ~h1.ok THEN NoSplit(Crash(x))
         ELSE IF FreeSpace(h1.b, n) >= size
         THEN With(SetNumCells(
                       SetCellPtr(
                           writeLeafCell(AllocCell(ShiftPtrsUp(h1, n, idx), size),
                                         AllocTop(h1.b, size), key, value),
                           idx, U16(AllocTop(h1.b, size))),
                       n + 1), LAMBDA h3 :
              IF ~h3.ok THEN NoSplit(Crash(x)) ELSE NoSplit(Must(Write(x, id, h3.b))))
         ELSE splitLeaf(x, id, h1, n, idx, key, value)))))

\* the appendInternalCell loops of splitInternal
RECURSIVE fillInternal(_, _, _, _)
fillInternal(h, all, i, last) ==
    IF i > last \/ ~h.ok THEN h
    ELSE fillInternal(appendInternalCell(h, all[i + 1].key, all[i + 1].leftChild),
                      all, i + 1, last)

\* all := the cells with the new one at idx; the cell after it, or the
\* rightmost pointer, takes rightChild
splitInternalCells(h, n, idx, key, rightChild, pre) ==
    With(InsertAt(pre, idx, [BadCell EXCEPT !.key = key,
                                            !.leftChild = internalChildAt(h.b, idx, n).id]),
         LAMBDA all0 :
         IF idx + 1 <= n THEN [all0 EXCEPT ![idx + 2].leftChild = rightChild]
         ELSE [all0 EXCEPT ![n + 1].leftChild = Rightmost(h.b)])

splitInternal(x, id, h, n, idx, key, rightChild) ==
    IF ~CellsReadable("BPTreeAcc", h.b, n, FALSE) THEN NoSplit(Crash(x))
    ELSE
    With(CellsOf("BPTreeAcc", h.b, n, FALSE), LAMBDA pre :
    With(splitInternalCells(h, n, idx, key, rightChild, pre), LAMBDA all :
    With(Allocate(x), LAMBDA a :
    LET oldRightmost == IF idx = n THEN rightChild ELSE Rightmost(h.b)
        mid == (n + 1) \div 2
        median == all[mid + 1]
        newID == a.id
    IN
    With(fillInternal(SetRightmost(InitPage(h, TypeInternal), median.leftChild),
                      all, 0, mid - 1), LAMBDA p1 :
    With(fillInternal(SetRightmost(InitPage(Handle(ZeroPage), TypeInternal), oldRightmost),
                      all, mid + 1, n), LAMBDA r1 :
    IF ~p1.ok \/ ~r1.ok THEN NoSplit(Crash(a.x))
    ELSE Res(Logged(Write(Write(a.x, id, p1.b), newID, r1.b),
                    "BPTreeAcc", FALSE, id, newID, KeysOf(pre), key,
                    median.key, p1.b, r1.b,
                    Call(h.b, all, idx, rightChild, NilValue)),
             median.key, NilValue, newID, TRUE))))))

\* the right child of the new cell idx: the left child of the cell after it,
\* or the rightmost pointer
setRightChild(h3, n, idx, rightChild) ==
    IF idx = n THEN SetRightmost(h3, rightChild)
    ELSE IF h3.ok /\ CellPtrInPage(idx + 1) /\ InPage(CellPtr(h3.b, idx + 1), 4)
         THEN [h3 EXCEPT !.b = PutUint32(@, CellPtr(h3.b, idx + 1), rightChild)]
         ELSE Panicked(h3)

insertInternal(x, id, b, n, idx, key, rightChild) ==
    IF FreeSpace(b, n) >= internalCellSize
    THEN With(ShiftPtrsUp(Handle(b), n, idx), LAMBDA h2 :
         With(internalChildAt(h2.b, idx, n), LAMBDA lc2 :
         With(SetCellPtr(
                  writeInternalCell(AllocCell(h2, internalCellSize),
                                    AllocTop(b, internalCellSize), key, lc2.id),
                  idx, U16(AllocTop(b, internalCellSize))), LAMBDA h3 :
         With(SetNumCells(setRightChild(h3, n, idx, rightChild), n + 1), LAMBDA h5 :
         IF ~h2.ok \/ ~lc2.ok \/ ~h5.ok THEN NoSplit(Crash(x))
         ELSE NoSplit(Must(Write(x, id, h5.b)))))))
    ELSE IF ~internalChildAt(b, idx, n).ok THEN NoSplit(Crash(x))
    ELSE splitInternal(x, id, Handle(b), n, idx, key, rightChild)

\* a writeHeader that leaves block 1 as it is
writeHeaderSkipped(x) == x

\* writeHeader / Tree.WriteHeader: the root id into the first bytes of block 1
writeHeader(x) ==
    With(Read(x, 1), LAMBDA r :
    IF r.err THEN Failed(r.x) ELSE Must(Write(r.x, 1, PutUint32(r.b, 0, x.rootID))))

RECURSIVE BPTree_insertRec(_, _, _, _, _)
BPTree_insertRec(x, id, key, value, depth) ==
    IF depth > MaxDepth THEN NoSplit(Hang(x))
    ELSE
    With(Read(x, id), LAMBDA r :
    IF r.err THEN NoSplit(Failed(r.x))
    ELSE IF r.b[OffType] = TypeLeaf THEN insertLeaf(r.x, id, r.b, key, value)
    ELSE
    With(findInternalIdx(r.b, key, NumCells(r.b)), LAMBDA s :
    With(internalChildAt(r.b, s.idx, NumCells(r.b)), LAMBDA ch :
    IF ~s.ok \/ ~ch.ok THEN NoSplit(Crash(r.x))
    ELSE
    With(BPTree_insertRec(r.x, ch.id, key, value, depth + 1), LAMBDA sub :
    IF sub.x.st # "ok" \/ ~sub.split THEN NoSplit(sub.x)
    ELSE
    With(Read(sub.x, id), LAMBDA r2 :
    IF r2.err THEN NoSplit(Failed(r2.x))
    ELSE
    With(findInternalIdx(r2.b, sub.mk, NumCells(r2.b)), LAMBDA s2 :
    IF ~s2.ok THEN NoSplit(Crash(r2.x))
    ELSE insertInternal(r2.x, id, r2.b, NumCells(r2.b), s2.idx, sub.mk, sub.rc)))))))

BPTree_Insert(x, key, value) ==
    With(BPTree_insertRec(x, x.rootID, key, value, 0), LAMBDA r :
    IF r.x.st # "ok" \/ ~r.split THEN r.x
    ELSE
    With(Allocate(r.x), LAMBDA a :
    With(appendInternalCell(
             SetRightmost(InitPage(Handle(ZeroPage), TypeInternal), r.rc),
             r.mk, x.rootID), LAMBDA p :
    IF ~p.ok THEN Crash(a.x)
    ELSE writeHeader([Write(a.x, a.id, p.b) EXCEPT !.rootID = a.id]))))

\* the execution state of a pager just opened
Fresh(pg) ==
    [pageCount |-> pg.pageCount, disk |-> pg.disk, cache |-> pg.cache,
     rootID |-> 0, st |-> "ok", log |-> <<>>, writes |-> <<>>, rl |-> <<>>,
     fuel |-> NoFault, failed |-> FALSE, werr |-> FALSE, after |-> 0, rootAtFail |-> 0]

\* Open on a path that holds no file yet: block 1 is the header, block 2 the
\* root, an empty leaf
BPTree_Open(cap) ==
    With(Allocate(Allocate(Fresh(PagerOpen(cap))).x), LAMBDA a2 :
    writeHeader([Write(a2.x, a2.id, InitPage(Handle(ZeroPage), TypeLeaf).b)
                    EXCEPT !.rootID = a2.id]))

\* findLeaf / Tree.FindLeaf: [x, id]
RECURSIVE FindLeafFrom(_, _, _, _, _)
FindLeafFrom(acc, x, curr, key, depth) ==
    IF depth > MaxDepth THEN [x |-> Hang(x), id |-> 0]
    ELSE
    With(Read(x, curr), LAMBDA r :
    IF r.err THEN [x |-> Failed(r.x), id |-> 0]
    ELSE IF r.b[OffType] = TypeLeaf THEN [x |-> r.x, id |-> curr]
    ELSE
    With(FindIdx(r.b, key, NumCells(r.b), acc, FALSE), LAMBDA s :
    With(ChildAt(r.b, s.idx, NumCells(r.b), acc), LAMBDA ch :
    IF ~s.ok \/ ~ch.ok THEN [x |-> Crash(r.x), id |-> 0]
    ELSE FindLeafFrom(acc, r.x, ch.id, key, depth + 1))))

findLeaf(x, key) == FindLeafFrom("BPTreeAcc", x, x.rootID, key, 0)
FindLeaf(x, key, acc) == FindLeafFrom(acc, x, x.rootID, key, 0)

\* BPTree.Get: [x, val]; val = NilValue is Go's nil
BPTree_Get(x, key) ==
    With(findLeaf(x, key), LAMBDA f :
    IF f.x.st # "ok" THEN [x |-> f.x, val |-> NilValue]
    ELSE
    With(Read(f.x, f.id), LAMBDA r :
    IF r.err THEN [x |-> Failed(r.x), val |-> NilValue]
    ELSE
    With(findLeafIdx(r.b, key, NumCells(r.b)), LAMBDA s :
    With(readLeafCell(r.b, s.idx), LAMBDA c :
    IF ~s.ok \/ (s.idx < NumCells(r.b) /\ ~c.ok) THEN [x |-> Crash(r.x), val |-> NilValue]
    ELSE IF s.idx < NumCells(r.b) /\ c.key = key THEN [x |-> r.x, val |-> c.value]
    ELSE [x |-> r.x, val |-> NilValue]))))

\* BPTree.Range: [x, leafID, idx]
BPTree_Range(x, start) ==
    With(findLeaf(x, start), LAMBDA f :
    IF f.x.st # "ok" THEN [x |-> f.x, leafID |-> 0, idx |-> 0]
    ELSE
    With(Read(f.x, f.id), LAMBDA r :
    IF r.err THEN [x |-> Failed(r.x), leafID |-> 0, idx |-> 0]
    ELSE
    With(findLeafIdx(r.b, start, NumCells(r.b)), LAMBDA s :
    IF ~s.ok THEN [x |-> Crash(r.x), leafID |-> 0, idx |-> 0]
    ELSE [x |-> r.x, leafID |-> f.id, idx |-> s.idx])))

\* Next returned false, in execution state y
Exhausted(y, leafID, idx) ==
    [x |-> y, leafID |-> leafID, idx |-> idx, more |-> FALSE,
     k |-> ZeroKey, v |-> NilValue]

\* a Next that reads the root again when it leaves a leaf
RECURSIVE nextViaRoot(_, _, _, _, _)
nextViaRoot(x, leafID, idx, end, depth) ==
    IF leafID = InvalidPage THEN Exhausted(x, leafID, idx)
    ELSE IF depth > MaxDepth THEN Exhausted(Hang(x), leafID, idx)
    ELSE
    With(Read(x, leafID), LAMBDA r :
    IF r.err THEN Exhausted(Failed(r.x), leafID, idx)
    ELSE IF idx < NumCells(r.b)
    THEN With(readLeafCell(r.b, idx), LAMBDA c :
         IF ~c.ok THEN Exhausted(Crash(r.x), leafID, idx)
         ELSE IF KeyLess(end, c.key) THEN Exhausted(r.x, leafID, idx)
         ELSE [x |-> r.x, leafID |-> leafID, idx |-> idx + 1, more |-> TRUE,
               k |-> c.key, v |-> c.value])
    ELSE nextViaRoot(Read(r.x, x.rootID).x, NextLeaf(r.b), 0, end, depth + 1))

\* RangeIterator.Next: [x, leafID, idx, more, k, v]
RECURSIVE RangeIterator_Next(_, _, _, _, _)
RangeIterator_Next(x, leafID, idx, end, depth) ==
    IF leafID = InvalidPage THEN Exhausted(x, leafID, idx)
    ELSE IF depth > MaxDepth THEN Exhausted(Hang(x), leafID, idx)
    ELSE
    With(Read(x, leafID), LAMBDA r :
    IF r.err THEN Exhausted(Failed(r.x), leafID, idx)
    ELSE IF idx < NumCells(r.b)
    THEN With(readLeafCell(r.b, idx), LAMBDA c :
         IF ~c.ok THEN Exhausted(Crash(r.x), leafID, idx)
         ELSE IF KeyLess(end, c.key) THEN Exhausted(r.x, leafID, idx)
         ELSE [x |-> r.x, leafID |-> leafID, idx |-> idx + 1, more |-> TRUE,
               k |-> c.key, v |-> c.value])
    ELSE RangeIterator_Next(r.x, NextLeaf(r.b), 0, end, depth + 1))

---------------------------------------------------------------------------
(* shared.Tree, the generic engine bound to an accessor acc *)

\* A page returned by Read is the cached object itself: a change made to it
\* without a Write is seen by every later Read that hits the cache.
Poke(x, id, b) ==
    IF id \in DOMAIN x.cache.items THEN [x EXCEPT !.cache.items[id].page = b] ELSE x

\* the AppendCell loops of splitNode
RECURSIVE fillCells(_, _, _, _, _)
fillCells(acc, h, all, i, last) ==
    IF i > last \/ ~h.ok THEN h
    ELSE fillCells(acc,
                   AppendCell(acc, h, all[i + 1].key, all[i + 1].value, all[i + 1].leftChild),
                   all, i + 1, last)

\* all := the cells with the new one at idx; in an internal page the cell
\* after it takes rightChild as its left child
splitNodeCells(acc, h, n, idx, key, value, rightChild, pre, leaf) ==
    With(InsertAt(pre, idx,
                  [BadCell EXCEPT !.key = key, !.value = value,
                                  !.leftChild = IF leaf THEN 0
                                                ELSE ChildAt(h.b, idx, n, acc).id]),
         LAMBDA all0 :
         IF ~leaf /\ idx # n THEN [all0 EXCEPT ![idx + 2].leftChild = rightChild]
         ELSE all0)

\* the two pages of a split, filled: [left, right]
splitNodePages(acc, h, n, idx, rightChild, all, newID, leaf) ==
    LET pageType == h.b[OffType]
        mid == (n + 1) \div 2
        oldRightmost == IF ~leaf /\ idx = n THEN rightChild ELSE Rightmost(h.b)
        oldNext == NextLeaf(h.b)
        p0 == InitPage(h, pageType)
        right0 == InitPage(Handle(ZeroPage), pageType)
    IN  IF leaf
        THEN LinkLeaves(acc, fillCells(acc, p0, all, 0, mid - 1),
                        fillCells(acc, right0, all,
                                  IF CopyUpLeaves(acc) THEN mid ELSE mid + 1, n),
                        newID, oldNext)
        ELSE [left |-> SetRightmost(fillCells(acc, p0, all, 0, mid - 1),
                                    all[mid + 1].leftChild),
              right |-> SetRightmost(fillCells(acc, right0, all, mid + 1, n),
                                     oldRightmost)]

splitNode(acc, x, id, h, n, idx, key, value, rightChild) ==
    IF ~CellsReadable(acc, h.b, n, h.b[OffType] = TypeLeaf) THEN NoSplit(Crash(x))
    ELSE
    With(h.b[OffType] = TypeLeaf, LAMBDA leaf :
    With(CellsOf(acc, h.b, n, leaf), LAMBDA pre :
    With(splitNodeCells(acc, h, n, idx, key, value, rightChild, pre, leaf), LAMBDA all :
    With(Allocate(x), LAMBDA a :
    With(splitNodePages(acc, h, n, idx, rightChild, all, a.id, leaf), LAMBDA pp :
    LET promoted == all[((n + 1) \div 2) + 1]
        promotedVal == IF leaf /\ CopyUpLeaves(acc) THEN NilValue ELSE promoted.value
    IN
    IF ~pp.left.ok \/ ~pp.right.ok THEN NoSplit(Crash(a.x))
    ELSE Res(Logged(Write(Write(a.x, id, pp.left.b), a.id, pp.right.b),
                    acc, leaf, id, a.id, KeysOf(pre), key, promoted.key,
                    pp.left.b, pp.right.b,
                    Call(h.b, all, idx, rightChild, promotedVal)),
             promoted.key, promotedVal, a.id, TRUE))))))

\* the right child of the new cell idx of an internal page
setChildAfter(h3, n, idx, rightChild, leaf) ==
    IF idx = n THEN SetRightmost(h3, rightChild)
    ELSE IF leaf THEN h3
    ELSE IF h3.ok /\ CellPtrInPage(idx + 1) /\ InPage(CellPtr(h3.b, idx + 1), 4)
         THEN [h3 EXCEPT !.b = PutUint32(@, CellPtr(h3.b, idx + 1), rightChild)]
         ELSE Panicked(h3)

doInsert(acc, x, id, b, n, idx, key, value, rightChild) ==
    With(b[OffType] = TypeLeaf, LAMBDA leaf :
    With(CellSize(acc, leaf, value), LAMBDA size :
    IF FreeSpace(b, n) >= size
    THEN With(ShiftPtrsUp(Handle(b), n, idx), LAMBDA h2 :
         With(IF leaf THEN [id |-> 0, ok |-> TRUE] ELSE ChildAt(h2.b, idx, n, acc),
              LAMBDA lc :
         With(SetCellPtr(
                  WriteCell(acc, AllocCell(h2, size), AllocTop(b, size),
                            key, value, lc.id, leaf),
                  idx, U16(AllocTop(b, size))), LAMBDA h3 :
         With(SetNumCells(setChildAfter(h3, n, idx, rightChild, leaf), n + 1), LAMBDA h5 :
         IF ~h2.ok \/ ~lc.ok \/ ~h5.ok THEN NoSplit(Crash(x))
         ELSE NoSplit(Must(Write(x, id, h5.b)))))))
    ELSE IF ~leaf /\ ~ChildAt(b, idx, n, acc).ok THEN NoSplit(Crash(x))
    ELSE splitNode(acc, x, id, Handle(b), n, idx, key, value, rightChild)))

\* insertRec after the child returned sub: done, or the promoted cell goes
\* into this page
insertPromoted(acc, id, sub) ==
    IF sub.x.st # "ok" \/ ~sub.split THEN NoSplit(sub.x)
    ELSE
    With(Read(sub.x, id), LAMBDA r2 :
    IF r2.err THEN NoSplit(Failed(r2.x))
    ELSE
    With(FindIdx(r2.b, sub.mk, NumCells(r2.b), acc, FALSE), LAMBDA s2 :
    IF ~s2.ok THEN NoSplit(Crash(r2.x))
    ELSE doInsert(acc, r2.x, id, r2.b, NumCells(r2.b), s2.idx, sub.mk, sub.mv, sub.rc)))

RECURSIVE Tree_insertRec(_, _, _, _, _, _)
Tree_insertRec(acc, x, id, key, value, depth) ==
    IF depth > MaxDepth THEN NoSplit(Hang(x))
    ELSE
    With(Read(x, id), LAMBDA r :
    IF r.err THEN NoSplit(Failed(r.x))
    ELSE
    With(NumCells(r.b), LAMBDA n0 :
    With(r.b[OffType] = TypeLeaf, LAMBDA leaf :
    With(FindIdx(r.b, key, n0, acc, leaf), LAMBDA s :
    With(IF s.ok /\ s.idx < n0 THEN ReadCell(acc, r.b, s.idx, leaf) ELSE BadCell, LAMBDA c :
    LET idx == s.idx
        existing == idx < n0 /\ c.ok /\ c.key = key
        n == IF existing THEN n0 - 1 ELSE n0
    IN
    IF ~s.ok \/ (idx < n0 /\ ~c.ok) THEN NoSplit(Crash(r.x))
    ELSE IF existing /\ LenV(value) <= LenV(c.value)
    THEN With(OverwriteValue(acc, Handle(r.b), idx, value, leaf), LAMBDA h1 :
         IF ~h1.ok THEN NoSplit(Crash(r.x)) ELSE NoSplit(Must(Write(r.x, id, h1.b))))
    ELSE
    With(IF existing THEN DeleteCell(Handle(r.b), idx) ELSE Handle(r.b), LAMBDA h1 :
    With(IF existing THEN Poke(r.x, id, h1.b) ELSE r.x, LAMBDA x1 :
    IF ~h1.ok THEN NoSplit(Crash(r.x))
    ELSE IF leaf THEN doInsert(acc, x1, id, h1.b, n, idx, key, value, 0)
    ELSE
    With(ChildAt(h1.b, idx, n, acc), LAMBDA ch :
    IF ~ch.ok THEN NoSplit(Crash(x1))
    ELSE insertPromoted(acc, id,
                        Tree_insertRec(acc, x1, ch.id, key, value, depth + 1))))))))))

Tree_Insert(acc, x, key, value) ==
    With(Tree_insertRec(acc, x, x.rootID, key, value, 0), LAMBDA r :
    IF r.x.st # "ok" \/ ~r.split THEN r.x
    ELSE
    With(Allocate(r.x), LAMBDA a :
    With(AppendCell(acc,
                    SetRightmost(InitPage(Handle(ZeroPage), TypeInternal), r.rc),
                    r.mk, r.mv, x.rootID), LAMBDA p :
    IF ~p.ok THEN Crash(a.x)
    ELSE writeHeader([Write(a.x, a.id, p.b) EXCEPT !.rootID = a.id]))))

\* Tree.Get: [x, val]
RECURSIVE Tree_GetFrom(_, _, _, _, _)
Tree_GetFrom(acc, x, curr, key, depth) ==
    IF depth > MaxDepth THEN [x |-> Hang(x), val |-> NilValue]
    ELSE
    With(Read(x, curr), LAMBDA r :
    IF r.err THEN [x |-> Failed(r.x), val |-> NilValue]
    ELSE
    With(NumCells(r.b), LAMBDA n :
    With(r.b[OffType] = TypeLeaf, LAMBDA leaf :
    With(FindIdx(r.b, key, n, acc, leaf), LAMBDA s :
    With(ReadCell(acc, r.b, s.idx, leaf), LAMBDA c :
    IF ~s.ok \/ (s.idx < n /\ ~c.ok) THEN [x |-> Crash(r.x), val |-> NilValue]
    ELSE IF s.idx < n /\ c.key = key /\ c.value # NilValue
         THEN [x |-> r.x, val |-> c.value]
    ELSE IF leaf THEN [x |-> r.x, val |-> NilValue]
    ELSE
    With(ChildAt(r.b, s.idx, n, acc), LAMBDA ch :
    IF ~ch.ok THEN [x |-> Crash(r.x), val |-> NilValue]
    ELSE Tree_GetFrom(acc, r.x, ch.id, key, depth + 1)))))))

Tree_Get(acc, x, key) == Tree_GetFrom(acc, x, x.rootID, key, 0)

\* opening an accessor-bound tree on a path that holds no file yet
Tree_Open(cap) == BPTree_Open(cap)

---------------------------------------------------------------------------
(* The cache alone: get and put called directly, as Pager.Read and         *)
(* Pager.Write call them.  recency lists every id ever touched (a get that *)
(* hit, or a put), most recent first; it never looks at head, tail, prev   *)
(* or next.                                                                *)

Touch(seq, id) == <<id>> \o SelectSeq(seq, LAMBDA e : e # id)

\* the id touched longest ago among the ids in S, or NilEntry if S is empty
Oldest(seq, S) ==
    LET in == SelectSeq(seq, LAMBDA e : e \in S)
    IN  IF Len(in) = 0 THEN NilEntry ELSE in[Len(in)]

\* the pages handed to put in the cache-only specification
LeafPage == InitPage(Handle(ZeroPage), TypeLeaf).b
LruPages == {ZeroPage, LeafPage}

NoIter == [open |-> FALSE]
NoStored == <<>>

InitLRU ==
    /\ impl = "cache"
    /\ pageCount = 0
    /\ disk = <<>>
    /\ \E cap \in 1 .. MaxCap : cache = newLRUCache(cap)
    /\ rootID = 0
    /\ status = "open"
    /\ it = NoIter
    /\ ret = [op |-> "new", id |-> NilEntry, hit |-> FALSE,
              before |-> {}, oldest |-> NilEntry]
    /\ stored = NoStored
    /\ distinct = TRUE
    /\ inserts = 0
    /\ reads = 0
    /\ recency = <<>>
    /\ twin = NoTwin
    /\ mem = NoMem

LruGot(id, g) ==
    /\ cache' = g.c
    /\ recency' = IF g.hit THEN Touch(recency, id) ELSE recency
    /\ ret' = [op |-> "get", id |-> id, hit |-> g.hit,
               before |-> DOMAIN cache.items,
               oldest |-> Oldest(recency, DOMAIN cache.items)]

LruGet(id) ==
    /\ LruGot(id, get(cache, id))
    /\ UNCHANGED <<impl, twin, mem, pageCount, disk, rootID, status, it, stored, distinct, inserts, reads>>

LruPut(id, pg) ==
    /\ cache' = put(cache, id, pg)
    /\ recency' = Touch(recency, id)
    /\ ret' = [op |-> "put", id |-> id, hit |-> id \in DOMAIN cache.items,
               before |-> DOMAIN cache.items,
               oldest |-> Oldest(recency, DOMAIN cache.items)]
    /\ UNCHANGED <<impl, twin, mem, pageCount, disk, rootID, status, it, stored, distinct, inserts, reads>>

NextLRU ==
    \/ \E id \in 0 .. MaxId : LruGet(id)
    \/ \E id \in 0 .. MaxId, pg \in LruPages : LruPut(id, pg)

SpecLRU == InitLRU /\ [][NextLRU]_vars

\* C10: a put of an id that is not cached, into a cache that is full, evicts
\* exactly one entry, the one touched longest ago (by a get that hit or a put),
\* and keeps the others; a put into a cache with room evicts nothing; and a
\* get that hit or a put leaves its id at the head (most recent) of the list.
C10_LruEvictsOldest ==
    /\ (ret.op = "put" /\ ~ret.hit /\ Cardinality(ret.before) + 1 > cache.cap)
          => DOMAIN cache.items = (ret.before \cup {ret.id}) \ {ret.oldest}
    /\ (ret.op = "put" /\ ~ret.hit /\ Cardinality(ret.before) + 1 <= cache.cap)
          => DOMAIN cache.items = ret.before \cup {ret.id}
    /\ (ret.op = "put" /\ ret.hit) => DOMAIN cache.items = ret.before
    /\ ret.op = "get" => DOMAIN cache.items = ret.before
    /\ (ret.op = "put" \/ (ret.op = "get" /\ ret.hit)) => cache.head = ret.id

\* a full cache of capacity 2 took a put of a third id and dropped the one
\* of its two ids that was touched longest ago
C10_Witness ==
    /\ ret.op = "put" /\ ~ret.hit
    /\ cache.cap = 2 /\ Cardinality(ret.before) = 2
    /\ ret.oldest \in ret.before /\ ret.oldest \notin DOMAIN cache.items
    /\ Len(recency) = 3 /\ recency[3] = ret.oldest

---------------------------------------------------------------------------
(* The index: Open on a fresh file, then Insert, Get, Range and Next called *)
(* by one caller.  A panic or an endless loop ends the run.                *)

\* Values inserted have length MinValLen or MaxValLen; into the push-up
\* B-tree, whose cells are 14 bytes plus the value in every page, they have
\* length MinPushUpLen or MaxPushUpLen.  With either pair a short and a long
\* cell fill a page to the last bytes.
MinValLen == 1
MaxValLen == 11
MinPushUpLen == 2
MaxPushUpLen == 4

Impls == {"BPTree", "BPTreeAcc", "BTreeAcc"}
Chained == {"BPTree", "BPTreeAcc"}
Keys == 1 .. MaxKey
ChainedVals == {[j \in 1 .. MinValLen |-> 7] \o <<>>, [j \in 1 .. MaxValLen |-> 9] \o <<>>}
PushUpVals == {[j \in 1 .. MinPushUpLen |-> 7] \o <<>>, [j \in 1 .. MaxPushUpLen |-> 9] \o <<>>}
Vals == IF impl = "BTreeAcc" THEN PushUpVals ELSE ChainedVals
\* keys looked up: the keys inserted, one below and one above them
GetKeys == 0 .. (MaxKey + 1)
MidKey == (MaxKey + 1) \div 2
RangeBounds == {<<0, MidKey>>, <<0, MaxKey + 1>>, <<MidKey, MidKey>>,
                <<MidKey, MaxKey + 1>>, <<MaxKey + 1, MaxKey + 1>>}

\* the running program as an execution state, and back
X == [pageCount |-> pageCount, disk |-> disk, cache |-> cache, rootID |-> rootID,
      st |-> "ok", log |-> <<>>, writes |-> <<>>, rl |-> <<>>,
      fuel |-> NoFault, failed |-> FALSE, werr |-> FALSE, after |-> 0, rootAtFail |-> 0]

Install(y) ==
    /\ pageCount' = y.pageCount
    /\ disk' = y.disk
    /\ cache' = y.cache
    /\ rootID' = y.rootID
    /\ status' = IF y.st \in {"panic", "hang"} THEN "crashed" ELSE "open"

IndexInsert(x, k, v) ==
    IF impl = "BPTree" THEN BPTree_Insert(x, Enc64(k), v)
    ELSE Tree_Insert(impl, x, Enc64(k), v)

IndexGet(x, k) ==
    IF impl = "BPTree" THEN BPTree_Get(x, Enc64(k)) ELSE Tree_Get(impl, x, Enc64(k))

\* the page a Read of id would return, without the read
View(x, id) ==
    IF id \in DOMAIN x.cache.items THEN x.cache.items[id].page ELSE x.disk[id]

\* Range(s, e) iterated until Next returns false: [out, st]
RECURSIVE Drain(_, _, _, _, _)
Drain(x, leafID, idx, end, out) ==
    With(RangeIterator_Next(x, leafID, idx, end, 0), LAMBDA nx :
    IF nx.x.st # "ok" \/ ~nx.more \/ Len(out) > 2 * MaxKey
    THEN [out |-> out, st |-> IF nx.more THEN "hang" ELSE nx.x.st, x |-> nx.x]
    ELSE Drain(nx.x, nx.leafID, nx.idx, end, Append(out, <<nx.k, nx.v>>)))

Scan(x, s, e) ==
    With(BPTree_Range(x, Enc64(s)), LAMBDA r :
    IF r.x.st # "ok" THEN [out |-> <<>>, st |-> r.x.st, x |-> r.x]
    ELSE Drain(r.x, r.leafID, r.idx, Enc64(e), <<>>))

\* the tree pages the insert changed, on disk or as Read returns them
Changed(x, y) ==
    {id \in 2 .. (y.pageCount - 1) :
        \/ id >= x.pageCount
        \/ x.disk[id] # y.disk[id]
        \/ View(x, id) # View(y, id)}

\* cell count, free-space top and cell pointer array of page id are the same
SameSlots(x, y, id) ==
    /\ id < x.pageCount
    /\ NumCells(View(x, id)) = NumCells(View(y, id))
    /\ CellContent(View(x, id)) = CellContent(View(y, id))
    /\ \A i \in 0 .. (NumCells(View(x, id)) - 1) :
          CellPtrInPage(i) => CellPtr(View(x, id), i) = CellPtr(View(y, id), i)

\* the cell layout of the open index
Acc == IF impl = "BTreeAcc" THEN "BTreeAcc" ELSE "BPTreeAcc"

\* the pages on the way from page id down to a leaf, by the first child; 0 if
\* the way leaves the file or does not end
RECURSIVE HeightFrom(_, _, _)
HeightFrom(x, id, depth) ==
    IF id \notin DOMAIN x.disk \/ depth > MaxDepth THEN 0
    ELSE With(View(x, id), LAMBDA b :
         IF b[OffType] = TypeLeaf THEN depth + 1
         ELSE With(ChildAt(b, 0, NumCells(b), Acc), LAMBDA ch :
              IF ch.ok THEN HeightFrom(x, ch.id, depth + 1) ELSE 0))
Height(x) == HeightFrom(x, x.rootID, 0)

\* Open returned x
Opened(x) ==
    /\ pageCount = x.pageCount
    /\ disk = x.disk
    /\ cache = x.cache
    /\ rootID = x.rootID

Init ==
    /\ impl \in Impls
    /\ \E cap \in 1 .. MaxCap :
          Opened(IF impl = "BPTree" THEN BPTree_Open(cap) ELSE Tree_Open(cap))
    /\ status = "open"
    /\ it = NoIter
    /\ ret = [op |-> "Open"]
    /\ stored = NoStored
    /\ distinct = TRUE
    /\ inserts = 0
    /\ reads = 0
    /\ recency = <<>>
    /\ twin = NoTwin
    /\ mem = NoMem

\* Insert(k, v) ended in y
Inserted(k, v, y, known, changed) ==
    /\ Install(y)
    /\ ret' = [op |-> "Insert", key |-> k, val |-> v, err |-> y.st = "err",
               known |-> known,
               old |-> IF known THEN stored[k] ELSE NilValue,
               splits |-> y.log,
               writes |-> y.writes,
               alloc |-> y.pageCount - pageCount,
               changed |-> changed,
               rootBefore |-> rootID,
               heightBefore |-> Height(X),
               getsBefore |-> [j \in Keys |-> IndexGet(X, j).val],
               headerSame |-> y.disk[1] = disk[1],
               sameSlots |-> \A id \in changed : SameSlots(X, y, id),
               scanned |-> IF impl = "BPTree"
                           THEN Len(Scan(X, 0, MaxKey + 1).out) ELSE 0]
    /\ stored' = IF y.st = "ok" THEN (k :> v) @@ stored ELSE stored
    /\ distinct' = (distinct /\ ~known)
    /\ inserts' = inserts + 1

InsertEnds(k, v, y) == Inserted(k, v, y, k \in DOMAIN stored, Changed(X, y))

Insert(k, v) ==
    /\ status = "open" /\ ~it.open /\ pageCount < MaxPages /\ inserts < MaxInserts
    /\ InsertEnds(k, v, IndexInsert(X, k, v))
    /\ UNCHANGED <<impl, twin, mem, it, reads, recency>>

\* Get(k) returned g
Got(k, g) ==
    /\ Install(g.x)
    /\ ret' = [op |-> "Get", key |-> k, val |-> g.val, err |-> g.x.st = "err"]

Get(k) ==
    /\ status = "open" /\ ~it.open /\ reads < MaxReads
    /\ Got(k, IndexGet(X, k))
    /\ reads' = reads + 1
    /\ UNCHANGED <<impl, twin, mem, it, stored, distinct, inserts, recency>>

\* Range(s, e) returned the iterator r
Ranged(s, e, r) ==
    /\ Install(r.x)
    /\ it' = IF r.x.st = "ok"
             THEN [open |-> TRUE, start |-> s, end |-> e, leafID |-> r.leafID,
                   idx |-> r.idx, out |-> <<>>]
             ELSE NoIter
    /\ ret' = [op |-> IF r.x.st = "ok" THEN "Seek" ELSE "Range", start |-> s,
               end |-> e, out |-> <<>>, err |-> r.x.st = "err",
               step |-> FALSE, from |-> r.leafID, at |-> r.idx, read |-> r.x.rl]

Range(s, e) ==
    /\ status = "open" /\ ~it.open /\ impl = "BPTree" /\ reads < MaxReads
    /\ Ranged(s, e, BPTree_Range(X, Enc64(s)))
    /\ reads' = reads + 1
    /\ UNCHANGED <<impl, twin, mem, stored, distinct, inserts, recency>>

\* Next returned nx; the iterator is done with once Next returns false
Stepped(nx, more) ==
    /\ Install(nx.x)
    /\ it' = IF more
             THEN [it EXCEPT !.leafID = nx.leafID, !.idx = nx.idx,
                             !.out = Append(@, <<nx.k, nx.v>>)]
             ELSE NoIter
    /\ ret' = [op |-> IF more THEN "Next" ELSE "Range", start |-> it.start,
               end |-> it.end,
               out |-> IF more THEN Append(it.out, <<nx.k, nx.v>>) ELSE it.out,
               err |-> nx.x.st = "err",
               step |-> TRUE, from |-> it.leafID, at |-> it.idx, read |-> nx.x.rl]

NextEnds(nx) == Stepped(nx, nx.more /\ nx.x.st = "ok")

Next ==
    /\ status = "open" /\ it.open
    /\ NextEnds(RangeIterator_Next(X, it.leafID, it.idx, Enc64(it.end), 0))
    /\ UNCHANGED <<impl, twin, mem, stored, distinct, inserts, reads, recency>>

NextIndex ==
    \/ \E k \in Keys, v \in Vals : Insert(k, v)
    \/ \E k \in GetKeys : Get(k)
    \/ \E b \in RangeBounds : Range(b[1], b[2])
    \/ Next

Spec == Init /\ [][NextIndex]_vars

---------------------------------------------------------------------------
(* What the claims speak of: the tree as the pager shows it *)

\* the most cell pointer slots a page has room for
MaxSlots == (PageSize - OffCellPtrs) \div CellPtrSize

\* the children an internal page names, those on the file
ChildIds(x, b) ==
    LET n == IF NumCells(b) > MaxSlots THEN MaxSlots ELSE NumCells(b) IN
    IF b[OffType] = TypeLeaf THEN {}
    ELSE {id \in DOMAIN x.disk :
            \E i \in 0 .. n : LET ch == ChildAt(b, i, n, Acc) IN ch.ok /\ ch.id = id}

RECURSIVE ReachFrom(_, _)
ReachFrom(x, seen) ==
    LET more == UNION {ChildIds(x, View(x, id)) : id \in seen} IN
    IF more \subseteq seen THEN seen ELSE ReachFrom(x, seen \cup more)

\* the pages reachable from the root
Reachable == ReachFrom(X, {rootID} \cap DOMAIN disk)
Leaves == {id \in Reachable : View(X, id)[OffType] = TypeLeaf}

\* the leaf reached by always taking the first child
RECURSIVE LeftmostFrom(_, _)
LeftmostFrom(id, depth) ==
    IF id \notin DOMAIN disk \/ depth > MaxDepth THEN InvalidPage
    ELSE LET b == View(X, id) IN
         IF b[OffType] = TypeLeaf THEN id
         ELSE LET ch == ChildAt(b, 0, NumCells(b), Acc) IN
              IF ch.ok THEN LeftmostFrom(ch.id, depth + 1) ELSE InvalidPage

\* the ids met following next-leaf pointers from id, the end of the walk last:
\* InvalidPage, an id that is no block of the file, or an id met before
RECURSIVE ChainFrom(_, _)
ChainFrom(id, walked) ==
    IF id \notin DOMAIN disk \/ \E i \in DOMAIN walked : walked[i] = id
    THEN Append(walked, id)
    ELSE ChainFrom(NextLeaf(View(X, id)), Append(walked, id))

Chain == ChainFrom(LeftmostFrom(rootID, 0), <<>>)

KeysAt(id) == KeysIn(Acc, View(X, id))
StrictlyAscending(keys) ==
    \A i \in 1 .. (Len(keys) - 1) : KeyLess(keys[i], keys[i + 1])
Elems(seq) == {seq[i] : i \in DOMAIN seq}

\* what a Range(s, e) has to yield, given what was inserted
RECURSIVE Expected(_, _)
Expected(s, e) ==
    IF s > e THEN <<>>
    ELSE (IF s \in DOMAIN stored THEN <<<<Enc64(s), stored[s]>>>> ELSE <<>>)
         \o Expected(s + 1, e)

\* the bytes cell i of a page takes: from its offset up to, not including, its end
CellEnd(b, i) ==
    LET c == ReadCell(Acc, b, i, b[OffType] = TypeLeaf) IN
    CellPtr(b, i) + CellSize(Acc, b[OffType] = TypeLeaf, c.value)

WellLaidOut(b) ==
    LET n == NumCells(b) IN
    /\ n <= MaxSlots
    /\ CellContent(b) >= OffCellPtrs + CellPtrSize * n
    /\ CellsReadable(Acc, b, n, b[OffType] = TypeLeaf)
    /\ \A i \in 0 .. (n - 1) : CellPtr(b, i) >= CellContent(b) /\ CellEnd(b, i) <= PageSize
    /\ \A i, j \in 0 .. (n - 1) :
          i # j => (CellEnd(b, i) <= CellPtr(b, j) \/ CellEnd(b, j) <= CellPtr(b, i))

\* a split kept the keys: what the page held and the key inserted are what
\* the two pages and the promoted key hold, each once
SplitKeepsKeys(e) ==
    LET after == IF e.copyUp THEN e.left \o e.right
                 ELSE e.left \o <<e.promoted>> \o e.right
    IN  /\ Len(after) = Len(e.pre) + 1
        /\ Elems(after) = Elems(e.pre) \cup {e.key}
        /\ Cardinality(Elems(after)) = Len(after)
        /\ e.copyUp => (Len(e.right) > 0 /\ e.promoted = e.right[1])

---------------------------------------------------------------------------
(* The claims *)

\* C1: with only pairwise distinct keys inserted so far, a Get of an inserted
\* key returns, without an error, the value given in that key's Insert.
C1_RoundTrip ==
    (ret.op = "Get" /\ distinct /\ ret.key \in DOMAIN stored)
        => (status = "open" /\ ~ret.err /\ ret.val = stored[ret.key])

\* C2: on the chained B+ tree, Range(s, e) iterated until Next returns false
\* has yielded exactly the stored keys k with s <= k <= e, each once, in
\* ascending order, each with the value of its most recent Insert.
C2_RangeYieldsStored ==
    ret.op = "Range"
        => (status = "open" /\ ~ret.err /\ ret.out = Expected(ret.start, ret.end))

\* C3: after an Insert of a stored key with a longer value, Get of the key
\* returns the new value, and on the chained B+ tree a Range over all keys
\* yields as many entries as before the call and the key once, with the new value.
C3_GrowingUpdate ==
    (ret.op = "Insert" /\ ret.known /\ LenV(ret.val) > LenV(ret.old))
        => /\ status = "open" /\ ~ret.err
           /\ With(IndexGet(X, ret.key), LAMBDA g : g.x.st = "ok" /\ g.val = ret.val)
           /\ impl = "BPTree" =>
                 With(Scan(X, 0, MaxKey + 1), LAMBDA sc :
                      /\ sc.st = "ok"
                      /\ Len(sc.out) = ret.scanned
                      /\ Len(SelectSeq(sc.out, LAMBDA p : p[1] = Enc64(ret.key))) = 1
                      /\ \E i \in DOMAIN sc.out : sc.out[i] = <<Enc64(ret.key), ret.val>>)

\* C4: after Open and after every Insert that returned, every page reachable
\* from the root holds its keys, in cell-pointer order, strictly ascending.
C4_KeysAscendInPage ==
    status = "open" => \A id \in Reachable : StrictlyAscending(KeysAt(id))

\* C5: on the chained variants, following next-leaf pointers from the
\* leftmost leaf ends at InvalidPage, visits every leaf reachable from the
\* root and no page twice, and every key of a leaf is below every key of
\* the leaf after it.
C5_LeafChainAscends ==
    (status = "open" /\ impl \in Chained)
        => /\ Chain[Len(Chain)] = InvalidPage
           /\ Elems(SubSeq(Chain, 1, Len(Chain) - 1)) = Leaves
           /\ \A i \in 1 .. (Len(Chain) - 2) :
                 \A a \in Elems(KeysAt(Chain[i])), c \in Elems(KeysAt(Chain[i + 1])) :
                    KeyLess(a, c)

\* C6: every split an Insert made kept the keys: the left page, the right
\* page and the promoted key hold what the page held plus the key inserted,
\* each key once (push-up), or left and right hold them each once and the
\* promoted key is the first key of the right page (copy-up).
C6_SplitKeepsKeys ==
    ret.op = "Insert" => \A i \in DOMAIN ret.splits : SplitKeepsKeys(ret.splits[i])

\* C7: a Get of a key that was never inserted returns nil and no error.
C7_MissIsNil ==
    (ret.op = "Get" /\ ret.key \notin DOMAIN stored)
        => (status = "open" /\ ~ret.err /\ ret.val = NilValue)

\* C8: an Insert of a stored key with a value no longer than the stored one
\* splits nothing, allocates nothing, changes no page but one, leaves that
\* page's cell count, free-space top and cell pointers as they were, and
\* Get of the key returns the new value afterwards.
C8_UpdateInPlace ==
    (ret.op = "Insert" /\ ret.known /\ LenV(ret.val) <= LenV(ret.old))
        => /\ status = "open" /\ ~ret.err
           /\ ret.splits = <<>> /\ ret.alloc = 0
           /\ Cardinality(ret.changed) <= 1 /\ ret.sameSlots
           /\ With(IndexGet(X, ret.key), LAMBDA g : g.x.st = "ok" /\ g.val = ret.val)

\* C9: in every tree page, on disk and as cached, the free-space top is at
\* or above the end of the cell pointer array, every cell lies between the
\* free-space top and the end of the page, and no two cells overlap.
C9_SlottedLayout ==
    status = "open"
        => \A id \in 2 .. (pageCount - 1) :
              WellLaidOut(disk[id]) /\ WellLaidOut(View(X, id))

---------------------------------------------------------------------------
(* The pager alone: Allocate, Read and Write called directly on a fresh    *)
(* file, with cache capacities 0..MaxCap.  stored maps a block id to the   *)
(* page of its most recent Write; ret.ids lists the ids Allocate returned. *)

\* Allocate is taken while the file holds fewer than MaxBlocks blocks.
MaxBlocks == 4

InternalPage == InitPage(Handle(ZeroPage), TypeInternal).b
\* the pages handed to Write
PagerPages == {LeafPage, InternalPage}

\* the ids Allocate has returned so far
Allocated == 1 .. (pageCount - 1)

InitPager ==
    /\ impl = "pager"
    /\ \E cap \in 0 .. MaxCap : Opened(Fresh(PagerOpen(cap)))
    /\ status = "open"
    /\ it = NoIter
    /\ ret = [op |-> "Open", ids |-> <<>>]
    /\ stored = NoStored
    /\ distinct = TRUE
    /\ inserts = 0
    /\ reads = 0
    /\ recency = <<>>
    /\ twin = NoTwin
    /\ mem = NoMem

\* Allocate returned a.id
PagerAllocated(a) ==
    /\ Install(a.x)
    /\ ret' = [op |-> "Allocate", id |-> a.id, before |-> pageCount,
               ids |-> Append(ret.ids, a.id)]

PagerAllocate ==
    /\ pageCount < MaxBlocks
    /\ PagerAllocated(Allocate(X))
    /\ UNCHANGED <<impl, twin, mem, it, stored, distinct, inserts, reads, recency>>

\* Read(id) returned r
PagerReadEnds(id, r) ==
    /\ Install(r.x)
    /\ ret' = [op |-> "Read", id |-> id, page |-> r.b, err |-> r.err, ids |-> ret.ids,
               evicted |-> id \notin DOMAIN cache.items]

PagerRead(id) ==
    /\ PagerReadEnds(id, Read(X, id))
    /\ UNCHANGED <<impl, twin, mem, it, stored, distinct, inserts, reads, recency>>

PagerWrite(id, pg) ==
    /\ Install(Write(X, id, pg))
    /\ ret' = [op |-> "Write", id |-> id, page |-> pg, ids |-> ret.ids]
    /\ stored' = (id :> pg) @@ stored
    /\ UNCHANGED <<impl, twin, mem, it, distinct, inserts, reads, recency>>

NextPager ==
    \/ PagerAllocate
    \/ \E id \in Allocated : PagerRead(id)
    \/ \E id \in Allocated, pg \in PagerPages : PagerWrite(id, pg)

SpecPager == InitPager /\ [][NextPager]_vars

C13_MonotonicAllocation ==
    impl = "pager"
        => /\ ret.op = "Allocate"
                => /\ ret.id = ret.before
                   /\ pageCount = ret.before + 1
                   /\ disk[ret.id] = ZeroPage
                   /\ Uint64(disk[0], 0) = pageCount
           /\ Len(ret.ids) = pageCount - 1
           /\ \A i \in DOMAIN ret.ids : ret.ids[i] = i
           /\ DOMAIN disk = 0 .. (pageCount - 1)

\* a third Allocate returned id 3, after earlier blocks had been written
C13_Witness ==
    /\ impl = "pager" /\ ret.op = "Allocate"
    /\ ret.ids = <<1, 2, 3>> /\ ret.id = 3 /\ pageCount = 4
    /\ DOMAIN stored # {}

---------------------------------------------------------------------------
(* Claims about the index and its file *)

\* C12: after every Insert that returned, every block held in the page cache
\* has the bytes of that block on disk.
C12_CacheEqualsDisk ==
    (impl \in Impls /\ status = "open" /\ ret.op = "Insert")
        => \A id \in DOMAIN cache.items :
              id \in DOMAIN disk /\ cache.items[id].page = disk[id]

\* the root id block 1 holds on disk
HeaderRoot == Uint32(disk[1], 0)

\* C17: after Open and after every Insert that returned, the 4 bytes at
\* offset 0 of block 1 on disk are the tree's root id, and an Insert that
\* did not replace the root left block 1 on disk as it was.
C17_HeaderPersistence ==
    (impl \in Impls /\ status = "open")
        => /\ HeaderRoot = rootID
           /\ (ret.op = "Insert" /\ ret.rootBefore = rootID) => ret.headerSame

\* an Insert replaced the root and block 1 names the new root
C17_Witness ==
    /\ impl \in Impls /\ status = "open" /\ ret.op = "Insert"
    /\ ret.rootBefore # rootID /\ ~ret.headerSame /\ HeaderRoot = rootID

\* block id holds a tree page: a block past the two headers, initialised
\* (InitPage left a free-space top) as an internal page or a leaf
TreePage(id) ==
    /\ id \in 2 .. (pageCount - 1)
    /\ View(X, id)[OffType] \in {TypeInternal, TypeLeaf}
    /\ CellContent(View(X, id)) # 0

\* the child pointers of page id: <<id, i>> for every cell i and for the
\* rightmost pointer (i = cell count), none for a leaf
PointersOf(id) ==
    IF View(X, id)[OffType] = TypeLeaf \/ NumCells(View(X, id)) > MaxSlots THEN {}
    ELSE {<<id, i>> : i \in 0 .. NumCells(View(X, id))}

\* the block pointer <<id, i>> names
Target(ptr) == ChildAt(View(X, ptr[1]), ptr[2], NumCells(View(X, ptr[1])), Acc)

\* C16: after Open and after every Insert that returned, the root id and
\* every child pointer of a page reachable from the root name a block in
\* 2..pageCount-1 that holds an initialised internal or leaf page, and no
\* page is named by two pointers or, for the root, by any.
C16_ReferentialIntegrity ==
    (impl \in Impls /\ status = "open")
        => /\ TreePage(rootID)
           /\ \A id \in Reachable :
                 /\ NumCells(View(X, id)) <= MaxSlots
                 /\ \A ptr \in PointersOf(id) : Target(ptr).ok /\ TreePage(Target(ptr).id)
           /\ \A id \in Reachable :
                 Cardinality({ptr \in UNION {PointersOf(q) : q \in Reachable} :
                                 Target(ptr).id = id})
                    = IF id = rootID THEN 0 ELSE 1

---------------------------------------------------------------------------
(* Close and a second Open of the same path *)

\* pager.Open on a file that holds blocks: the count is read from block 0
PagerReopen(d, cap) ==
    [pageCount |-> Uint64(d[0], 0), disk |-> d, cache |-> newLRUCache(cap)]

\* readHeader / Tree.ReadHeader; Open drops its error
readHeader(x) ==
    With(Read(x, 1), LAMBDA r :
    IF r.err THEN r.x ELSE [r.x EXCEPT !.rootID = Uint32(r.b, 0)])

\* bptree.Open on a path that holds an index
BPTree_Reopen(d, cap) ==
    With(Fresh(PagerReopen(d, cap)), LAMBDA x :
    IF x.pageCount <= 2
    THEN With(Allocate(Allocate(x).x), LAMBDA a2 :
         writeHeader([Write(a2.x, a2.id, InitPage(Handle(ZeroPage), TypeLeaf).b)
                         EXCEPT !.rootID = a2.id]))
    ELSE readHeader(x))

\* BPTree.Close: the header is written, then the file is closed; gets is what
\* Get returned for each key on the index that is being closed
Close ==
    /\ status = "open" /\ ~it.open
    /\ With(writeHeader(X), LAMBDA y :
          /\ pageCount' = y.pageCount
          /\ disk' = y.disk
          /\ cache' = y.cache
          /\ rootID' = y.rootID)
    /\ status' = "closed"
    /\ ret' = [op |-> "Close", pageCount |-> pageCount, rootID |-> rootID,
               gets |-> [k \in Keys |-> IndexGet(X, k).val]]
    /\ UNCHANGED <<impl, twin, mem, it, stored, distinct, inserts, reads, recency>>

Reopen(cap) ==
    /\ status = "closed"
    /\ Install(BPTree_Reopen(disk, cap))
    /\ ret' = [op |-> "Reopen", closed |-> ret]
    /\ UNCHANGED <<impl, twin, mem, it, stored, distinct, inserts, reads, recency>>

NextReopen ==
    \/ \E k \in Keys, v \in Vals : Insert(k, v)
    \/ Close
    \/ \E cap \in 1 .. MaxCap : Reopen(cap)

SpecReopen == Init /\ [][NextReopen]_vars

\* C14: a second Open after Close finds the block count and the root id the
\* index had when it was closed, allocates nothing, and Get returns every
\* key it returned before Close, with the same value.
C14_ReopenRoundTrip ==
    (ret.op = "Reopen")
        => /\ status = "open"
           /\ pageCount = ret.closed.pageCount
           /\ rootID = ret.closed.rootID
           /\ rootID = HeaderRoot
           /\ \A k \in Keys :
                 ret.closed.gets[k] # NilValue
                     => IndexGet(X, k).val = ret.closed.gets[k]

---------------------------------------------------------------------------
(* Insert on a file that fails one access *)

\* the disk accesses of one Insert that may be the one to fail
MaxFuel == 6

\* Insert(k, v) ended in y after the access numbered n failed
FaultyInserted(k, v, n, y) ==
    /\ y.failed
    /\ pageCount' = y.pageCount
    /\ disk' = y.disk
    /\ cache' = y.cache
    /\ rootID' = y.rootID
    /\ status' = "faulted"
    /\ ret' = [op |-> "FaultyInsert", key |-> k, val |-> v, fuel |-> n,
               err |-> y.st = "err", st |-> y.st, after |-> y.after,
               rootAtFail |-> y.rootAtFail, splits |-> y.log,
               writes |-> y.writes, rootBefore |-> rootID]

FaultyInsert(k, v, n) ==
    /\ status = "open" /\ ~it.open /\ pageCount < MaxPages /\ inserts < MaxInserts
    /\ FaultyInserted(k, v, n, IndexInsert([X EXCEPT !.fuel = n], k, v))
    /\ inserts' = inserts + 1
    /\ UNCHANGED <<impl, twin, mem, it, stored, distinct, reads, recency>>

NextFault ==
    \/ \E k \in Keys, v \in Vals : Insert(k, v)
    \/ \E k \in Keys, v \in Vals, n \in 0 .. MaxFuel : FaultyInsert(k, v, n)

SpecFault == Init /\ [][NextFault]_vars

\* C15: when a Read, Write or Allocate of the pager fails during Insert,
\* Insert returns the error, calls Write and Allocate no more after the
\* failure, and leaves the root id as it was at the failure.
C15_ErrorPropagation ==
    (ret.op = "FaultyInsert")
        => /\ ret.err
           /\ ret.after = 0
           /\ rootID = ret.rootAtFail

---------------------------------------------------------------------------
(* The order-based B-tree of btree.go.  A page is [type, n, first, slots]: *)
(* node type, number of keys, first child, and the slots [k, p, v]: key,   *)
(* child pointer, and for a leaf the bytes that the slot's offset and      *)
(* length locate in the append-only value file.                            *)

\* order: the children an internal node can have; 200 in the source
order == 3
maxKeys == order - 1
minKeys == (order - 1) \div 2
typeInternal == 0
typeLeaf == 1

ZeroSlot == [k |-> 0, p |-> 0, v |-> <<>>]
\* new(pager.Page) read as a node
BlankNode == [type |-> typeInternal, n |-> 0, first |-> 0,
              slots |-> [i \in 1 .. order |-> ZeroSlot]]

numKeys(pg) == pg.n
setNumKeys(pg, n) == [pg EXCEPT !.n = n]
getSlot(pg, i) == pg.slots[i + 1]
putSlot(pg, i, k, ptr, v) == [pg EXCEPT !.slots[i + 1] = [k |-> k, p |-> ptr, v |-> v]]

\* findKeyIndex: the index of the first key >= key, by binary search
RECURSIVE findKeyIndexIn(_, _, _, _)
findKeyIndexIn(pg, key, lo, hi) ==
    IF lo >= hi THEN lo
    ELSE IF getSlot(pg, (lo + hi) \div 2).k < key
         THEN findKeyIndexIn(pg, key, ((lo + hi) \div 2) + 1, hi)
         ELSE findKeyIndexIn(pg, key, lo, (lo + hi) \div 2)

findKeyIndex(pg, key, n) == findKeyIndexIn(pg, key, 0, n)

\* childPageID: pos = 0 is firstPtr, pos = i the pointer of slot i - 1
childPageID(pg, pos) == IF pos = 0 THEN pg.first ELSE getSlot(pg, pos - 1).p

\* the loop that shifts slots idx .. n - 1 one to the right, then putSlot at idx
shiftIn(pg, n, idx, k, ptr, v) ==
    [pg EXCEPT !.slots = [j \in 1 .. order |->
        IF j - 1 = idx THEN [k |-> k, p |-> ptr, v |-> v]
        ELSE IF j - 1 > idx /\ j - 1 <= n THEN pg.slots[j - 1]
        ELSE pg.slots[j]]]

\* the loop that shifts slots idx + 1 .. n - 1 one to the left
shiftOut(pg, n, idx) ==
    [pg EXCEPT !.slots = [j \in 1 .. order |->
        IF j - 1 >= idx /\ j - 1 < n - 1 THEN pg.slots[j + 1] ELSE pg.slots[j]]]

\* the loop that copies slots from .. n - 1 of pg to slots to .. of dst
copySlots(dst, pg, from, n, to) ==
    [dst EXCEPT !.slots = [j \in 1 .. order |->
        IF j - 1 >= to /\ j - 1 < to + (n - from) THEN pg.slots[j - to + from]
        ELSE dst.slots[j]]]

BTRes(x, mk, newID, split) == [x |-> x, mk |-> mk, newID |-> newID, split |-> split]
BTNoSplit(x) == BTRes(x, 0, 0, FALSE)

\* splitLeaf / splitInternal: the right half moves to a new page; a leaf keeps
\* the middle key as the first key of the new page, an internal node gives it up
BT_split(x, nodeID, pg, n, leaf) ==
    With(Allocate(x), LAMBDA a :
    IF a.err THEN BTNoSplit(Failed(a.x))
    ELSE
    With(IF leaf
         THEN setNumKeys(copySlots([BlankNode EXCEPT !.type = typeLeaf],
                                   pg, n \div 2, n, 0), n - (n \div 2))
         ELSE setNumKeys(copySlots([BlankNode EXCEPT !.first = getSlot(pg, n \div 2).p],
                                   pg, (n \div 2) + 1, n, 0), n - ((n \div 2) + 1)),
         LAMBDA newPg :
    With(Must(Write(a.x, nodeID, setNumKeys(pg, n \div 2))), LAMBDA w1 :
    IF w1.st # "ok" THEN BTNoSplit(w1)
    ELSE
    With(Must(Write(w1, a.id, newPg)), LAMBDA w2 :
    IF w2.st # "ok" THEN BTNoSplit(w2)
    ELSE BTRes(w2, IF leaf THEN getSlot(newPg, 0).k ELSE getSlot(pg, n \div 2).k,
               a.id, TRUE)))))

BT_insertLeaf(x, nodeID, pg, n, key, v) ==
    With(findKeyIndex(pg, key, n), LAMBDA idx :
    IF idx < n /\ getSlot(pg, idx).k = key
    THEN BTNoSplit(Must(Write(x, nodeID, putSlot(pg, idx, key, 0, v))))
    ELSE IF n + 1 <= maxKeys
    THEN BTNoSplit(Must(Write(x, nodeID, setNumKeys(shiftIn(pg, n, idx, key, 0, v), n + 1))))
    ELSE BT_split(x, nodeID, setNumKeys(shiftIn(pg, n, idx, key, 0, v), n + 1), n + 1, TRUE))

\* insertNode with insertInternal: [x, mk, newID, split]
RECURSIVE BT_insertNode(_, _, _, _, _)
BT_insertNode(x, nodeID, key, v, depth) ==
    IF depth > MaxDepth THEN BTNoSplit(Hang(x))
    ELSE
    With(Read(x, nodeID), LAMBDA r :
    IF r.err THEN BTNoSplit(Failed(r.x))
    ELSE IF r.b.type = typeLeaf THEN BT_insertLeaf(r.x, nodeID, r.b, numKeys(r.b), key, v)
    ELSE
    With(findKeyIndex(r.b, key, numKeys(r.b)), LAMBDA idx :
    With(BT_insertNode(r.x, childPageID(r.b, idx), key, v, depth + 1), LAMBDA sub :
    IF sub.x.st # "ok" \/ ~sub.split THEN BTNoSplit(sub.x)
    ELSE IF numKeys(r.b) + 1 <= maxKeys
    THEN BTNoSplit(Must(Write(sub.x, nodeID,
             setNumKeys(shiftIn(r.b, numKeys(r.b), idx, sub.mk, sub.newID, <<>>),
                        numKeys(r.b) + 1))))
    ELSE BT_split(sub.x, nodeID,
                  setNumKeys(shiftIn(r.b, numKeys(r.b), idx, sub.mk, sub.newID, <<>>),
                             numKeys(r.b) + 1),
                  numKeys(r.b) + 1, FALSE))))

\* BTree.Insert: the value is appended to the value file, the tree takes the
\* key; when the root splits initInternal makes a new root
BTree_Insert(x, key, v) ==
    With(BT_insertNode(x, x.rootID, key, v, 0), LAMBDA r :
    IF r.x.st # "ok" \/ ~r.split THEN r.x
    ELSE
    With(Allocate(r.x), LAMBDA a :
    IF a.err THEN Failed(a.x)
    ELSE
    With(Must(Write(a.x, a.id,
             putSlot([BlankNode EXCEPT !.n = 1, !.first = x.rootID], 0, r.mk, r.newID, <<>>))),
         LAMBDA w :
    IF w.st # "ok" THEN w ELSE writeHeader([w EXCEPT !.rootID = a.id]))))

\* btree.Open on a path that holds no file yet
BTree_Open(cap) ==
    With(Allocate(Allocate(Fresh(PagerOpen(cap))).x), LAMBDA a2 :
    writeHeader([Write(a2.x, a2.id, [BlankNode EXCEPT !.type = typeLeaf])
                    EXCEPT !.rootID = a2.id]))

\* searchNode: [x, val]
RECURSIVE searchNode(_, _, _, _)
searchNode(x, nodeID, key, depth) ==
    IF depth > MaxDepth THEN [x |-> Hang(x), val |-> NilValue]
    ELSE
    With(Read(x, nodeID), LAMBDA r :
    IF r.err THEN [x |-> Failed(r.x), val |-> NilValue]
    ELSE
    With(findKeyIndex(r.b, key, numKeys(r.b)), LAMBDA idx :
    IF r.b.type = typeLeaf
    THEN [x |-> r.x,
          val |-> IF idx < numKeys(r.b) /\ getSlot(r.b, idx).k = key
                  THEN getSlot(r.b, idx).v ELSE NilValue]
    ELSE searchNode(r.x, childPageID(r.b, idx), key, depth + 1)))

BTree_Get(x, key) == searchNode(x, x.rootID, key, 0)

BTDel(x, found) == [x |-> x, found |-> found]

\* the three Writes that end a borrow
BT_write3(x, id1, pg1, id2, pg2, id3, pg3) ==
    With(Must(Write(x, id1, pg1)), LAMBDA w1 :
    IF w1.st # "ok" THEN w1
    ELSE With(Must(Write(w1, id2, pg2)), LAMBDA w2 :
         IF w2.st # "ok" THEN w2 ELSE Must(Write(w2, id3, pg3))))

\* borrowFromRight: the first key of the right sibling goes to the child, for
\* internal nodes through the parent
borrowFromRight(x, parentID, parentPg, sepIdx, childID, rightID, rightPg) ==
    With(Read(x, childID), LAMBDA c :
    IF c.err THEN Failed(c.x)
    ELSE
    With(setNumKeys(shiftOut(rightPg, numKeys(rightPg), 0), numKeys(rightPg) - 1),
         LAMBDA right1 :
    IF c.b.type = typeInternal
    THEN BT_write3(c.x,
             childID, setNumKeys(putSlot(c.b, numKeys(c.b), getSlot(parentPg, sepIdx).k,
                                         rightPg.first, <<>>), numKeys(c.b) + 1),
             rightID, [right1 EXCEPT !.first = getSlot(rightPg, 0).p],
             parentID, putSlot(parentPg, sepIdx, getSlot(rightPg, 0).k, rightID, <<>>))
    ELSE BT_write3(c.x,
             childID, setNumKeys(putSlot(c.b, numKeys(c.b), getSlot(rightPg, 0).k,
                                         getSlot(rightPg, 0).p, getSlot(rightPg, 0).v),
                                 numKeys(c.b) + 1),
             rightID, right1,
             parentID, putSlot(parentPg, sepIdx, getSlot(right1, 0).k, rightID, <<>>))))

\* borrowFromLeft: the last key of the left sibling goes to the child
borrowFromLeft(x, parentID, parentPg, sepIdx, leftID, leftPg, childID) ==
    With(Read(x, childID), LAMBDA c :
    IF c.err THEN Failed(c.x)
    ELSE
    With(getSlot(leftPg, numKeys(leftPg) - 1), LAMBDA last :
    BT_write3(c.x,
        leftID, setNumKeys(leftPg, numKeys(leftPg) - 1),
        childID,
        IF c.b.type = typeInternal
        THEN setNumKeys([shiftIn(c.b, numKeys(c.b), 0, getSlot(parentPg, sepIdx).k,
                                 c.b.first, <<>>) EXCEPT !.first = last.p],
                        numKeys(c.b) + 1)
        ELSE setNumKeys(shiftIn(c.b, numKeys(c.b), 0, last.k, last.p, last.v),
                        numKeys(c.b) + 1),
        parentID, putSlot(parentPg, sepIdx, last.k, childID, <<>>))))

\* mergeNodes: the right page is appended to the left one, for internal nodes
\* after the separator; the separator leaves the parent
mergeNodes(x, parentID, parentPg, parentN, sepIdx, leftID, rightID) ==
    With(Read(x, leftID), LAMBDA l :
    IF l.err THEN Failed(l.x)
    ELSE
    With(Read(l.x, rightID), LAMBDA r :
    IF r.err THEN Failed(r.x)
    ELSE
    With(IF l.b.type = typeInternal
         THEN setNumKeys(copySlots(putSlot(l.b, numKeys(l.b), getSlot(parentPg, sepIdx).k,
                                           r.b.first, <<>>),
                                   r.b, 0, numKeys(r.b), numKeys(l.b) + 1),
                         numKeys(l.b) + 1 + numKeys(r.b))
         ELSE setNumKeys(copySlots(l.b, r.b, 0, numKeys(r.b), numKeys(l.b)),
                         numKeys(l.b) + numKeys(r.b)),
         LAMBDA left1 :
    With(Must(Write(r.x, leftID, left1)), LAMBDA w :
    IF w.st # "ok" THEN w
    ELSE Must(Write(w, parentID,
                    setNumKeys(shiftOut(parentPg, parentN, sepIdx), parentN - 1)))))))

\* rebalance: the right sibling first, the left one when there is none
rebalance(x, parentID, parentPg, parentN, childPos, childID) ==
    IF childPos < parentN
    THEN With(Read(x, childPageID(parentPg, childPos + 1)), LAMBDA r :
         IF r.err THEN Failed(r.x)
         ELSE IF numKeys(r.b) > minKeys
         THEN borrowFromRight(r.x, parentID, parentPg, childPos, childID,
                              childPageID(parentPg, childPos + 1), r.b)
         ELSE mergeNodes(r.x, parentID, parentPg, parentN, childPos, childID,
                         childPageID(parentPg, childPos + 1)))
    ELSE IF childPos = 0 THEN Crash(x)
    ELSE With(Read(x, childPageID(parentPg, childPos - 1)), LAMBDA l :
         IF l.err THEN Failed(l.x)
         ELSE IF numKeys(l.b) > minKeys
         THEN borrowFromLeft(l.x, parentID, parentPg, childPos - 1,
                             childPageID(parentPg, childPos - 1), l.b, childID)
         ELSE mergeNodes(l.x, parentID, parentPg, parentN, childPos - 1,
                         childPageID(parentPg, childPos - 1), childID))

\* deleteFromLeaf: [x, found]
deleteFromLeaf(x, nodeID, pg, n, key) ==
    With(findKeyIndex(pg, key, n), LAMBDA idx :
    IF idx >= n \/ getSlot(pg, idx).k # key THEN BTDel(x, FALSE)
    ELSE BTDel(Must(Write(x, nodeID, setNumKeys(shiftOut(pg, n, idx), n - 1))), TRUE))

\* deleteNode: [x, found]
RECURSIVE deleteNode(_, _, _, _)
deleteNode(x, nodeID, key, depth) ==
    IF depth > MaxDepth THEN BTDel(Hang(x), FALSE)
    ELSE
    With(Read(x, nodeID), LAMBDA r :
    IF r.err THEN BTDel(Failed(r.x), FALSE)
    ELSE IF r.b.type = typeLeaf THEN deleteFromLeaf(r.x, nodeID, r.b, numKeys(r.b), key)
    ELSE
    With(findKeyIndex(r.b, key, numKeys(r.b)), LAMBDA childPos :
    With(deleteNode(r.x, childPageID(r.b, childPos), key, depth + 1), LAMBDA sub :
    IF sub.x.st # "ok" \/ ~sub.found THEN sub
    ELSE
    With(Read(sub.x, childPageID(r.b, childPos)), LAMBDA c :
    IF c.err THEN BTDel(Failed(c.x), TRUE)
    ELSE IF numKeys(c.b) >= minKeys THEN BTDel(c.x, TRUE)
    ELSE
    With(Read(c.x, nodeID), LAMBDA pp :
    IF pp.err THEN BTDel(Failed(pp.x), TRUE)
    ELSE BTDel(rebalance(pp.x, nodeID, pp.b, numKeys(pp.b), childPos,
                         childPageID(r.b, childPos)), TRUE))))))

\* BTree.Delete: [x, found]; a root left as an internal node with no key gives
\* way to its first child
BTree_Delete(x, key) ==
    With(deleteNode(x, x.rootID, key, 0), LAMBDA d :
    IF d.x.st # "ok" \/ ~d.found THEN d
    ELSE
    With(Read(d.x, x.rootID), LAMBDA r :
    IF r.err THEN BTDel(Failed(r.x), TRUE)
    ELSE IF numKeys(r.b) = 0 /\ r.b.type = typeInternal
    THEN BTDel(writeHeader([r.x EXCEPT !.rootID = r.b.first]), TRUE)
    ELSE BTDel(r.x, TRUE)))

\* seekToFirst: [x, stack]; a frame is [pageID, idx]
RECURSIVE seekToFirst(_, _, _, _)
seekToFirst(x, nodeID, start, stack) ==
    IF Len(stack) > MaxDepth THEN [x |-> Hang(x), stack |-> stack]
    ELSE
    With(Read(x, nodeID), LAMBDA r :
    IF r.err THEN [x |-> Failed(r.x), stack |-> stack]
    ELSE
    With(findKeyIndex(r.b, start, numKeys(r.b)), LAMBDA idx :
    IF r.b.type = typeLeaf
    THEN [x |-> r.x, stack |-> Append(stack, [pageID |-> nodeID, idx |-> idx])]
    ELSE seekToFirst(r.x, childPageID(r.b, idx), start,
                     Append(stack, [pageID |-> nodeID, idx |-> idx]))))

Pop(stack) == SubSeq(stack, 1, Len(stack) - 1)
Advance(stack) == [stack EXCEPT ![Len(stack)].idx = @ + 1]

\* RangeIterator.Next: [x, stack, more, k, v]
RECURSIVE BT_Next(_, _, _, _)
BT_Next(x, stack, end, steps) ==
    IF Len(stack) = 0 THEN [x |-> x, stack |-> stack, more |-> FALSE, k |-> 0, v |-> NilValue]
    ELSE IF steps > 4 * MaxPages
    THEN [x |-> Hang(x), stack |-> stack, more |-> FALSE, k |-> 0, v |-> NilValue]
    ELSE
    With(stack[Len(stack)], LAMBDA frame :
    With(Read(x, frame.pageID), LAMBDA r :
    IF r.err
    THEN [x |-> Failed(r.x), stack |-> stack, more |-> FALSE, k |-> 0, v |-> NilValue]
    ELSE IF r.b.type = typeLeaf
    THEN IF frame.idx >= numKeys(r.b) THEN BT_Next(r.x, Pop(stack), end, steps + 1)
         ELSE IF getSlot(r.b, frame.idx).k > end
         THEN [x |-> r.x, stack |-> <<>>, more |-> FALSE, k |-> 0, v |-> NilValue]
         ELSE [x |-> r.x, stack |-> Advance(stack), more |-> TRUE,
               k |-> getSlot(r.b, frame.idx).k, v |-> getSlot(r.b, frame.idx).v]
    ELSE IF frame.idx > numKeys(r.b) THEN BT_Next(r.x, Pop(stack), end, steps + 1)
    ELSE BT_Next(r.x,
                 Append(Advance(stack),
                        [pageID |-> childPageID(r.b, frame.idx), idx |-> 0]),
                 end, steps + 1)))

\* Range(start, end) iterated until Next returns false: [x, out]
RECURSIVE BT_Drain(_, _, _, _)
BT_Drain(x, stack, end, out) ==
    With(BT_Next(x, stack, end, 0), LAMBDA nx :
    IF nx.x.st # "ok" \/ ~nx.more \/ Len(out) >= 4 * MaxKey
    THEN [x |-> IF nx.more THEN Hang(nx.x) ELSE nx.x, out |-> out]
    ELSE BT_Drain(nx.x, nx.stack, end, Append(out, <<nx.k, nx.v>>)))

BTree_Range(x, start, end) ==
    With(seekToFirst(x, x.rootID, start, <<>>), LAMBDA sk :
    IF sk.x.st # "ok" THEN [x |-> sk.x, out |-> <<>>]
    ELSE BT_Drain(sk.x, sk.stack, end, <<>>))

---------------------------------------------------------------------------
(* The B-tree of btree.go as a running program *)

\* Inserts and Deletes of one run
MaxBTOps == 6
BTKeys == 1 .. (MaxKey + 1)
\* every key has a value of its own; key MidKey has a second, longer one
BTValsOf(k) == {<<k>>} \cup (IF k = MidKey THEN {[j \in 1 .. MaxValLen |-> 9] \o <<>>} ELSE {})
\* a run mutates the tree MaxBTOps times at most and then reads it

InitBT ==
    /\ impl = "BTree"
    /\ \E cap \in 1 .. MaxCap : Opened(BTree_Open(cap))
    /\ status = "open"
    /\ it = NoIter
    /\ ret = [op |-> "Open"]
    /\ stored = NoStored
    /\ distinct = TRUE
    /\ inserts = 0
    /\ reads = 0
    /\ recency = <<>>
    /\ twin = NoTwin
    /\ mem = NoMem

\* what Get returns for every key, and what a Range over all keys yields
BTGets(x) == [k \in BTKeys |-> BTree_Get(x, k).val]
BTScan(x) == BTree_Range(x, 0, MaxKey + 2).out

BTInsert(k, v) ==
    /\ status = "open" /\ inserts < MaxBTOps /\ reads = 0 /\ pageCount < MaxPages
    /\ With(BTree_Insert(X, k, v), LAMBDA y :
          /\ Install(y)
          /\ ret' = [op |-> "Insert", key |-> k, val |-> v, err |-> y.st = "err"]
          /\ stored' = IF y.st = "ok" THEN (k :> v) @@ stored ELSE stored)
    /\ distinct' = (distinct /\ k \notin DOMAIN stored)
    /\ inserts' = inserts + 1
    /\ UNCHANGED <<impl, twin, mem, it, reads, recency>>

BTDelete(k) ==
    /\ status = "open" /\ inserts < MaxBTOps /\ reads = 0
    /\ With(BTree_Delete(X, k), LAMBDA d :
          /\ Install(d.x)
          /\ ret' = [op |-> "Delete", key |-> k, err |-> d.x.st = "err",
                     known |-> k \in DOMAIN stored, found |-> d.found,
                     sameDisk |-> d.x.disk = disk,
                     sameRoot |-> d.x.rootID = rootID,
                     sameCount |-> d.x.pageCount = pageCount,
                     sameGets |-> BTGets(d.x) = BTGets(X),
                     sameScan |-> BTScan(d.x) = BTScan(X)]
          /\ stored' = IF d.x.st = "ok"
                       THEN [j \in DOMAIN stored \ {k} |-> stored[j]] ELSE stored)
    /\ inserts' = inserts + 1
    /\ UNCHANGED <<impl, twin, mem, it, distinct, reads, recency>>

BTGet(k) ==
    /\ status = "open" /\ reads < MaxReads
    /\ With(BTree_Get(X, k), LAMBDA g :
          /\ Install(g.x)
          /\ ret' = [op |-> "Get", key |-> k, val |-> g.val, err |-> g.x.st = "err"])
    /\ reads' = reads + 1
    /\ UNCHANGED <<impl, twin, mem, it, stored, distinct, inserts, recency>>

BTRange(s, e) ==
    /\ status = "open" /\ reads < MaxReads
    /\ With(BTree_Range(X, s, e), LAMBDA r :
          /\ Install(r.x)
          /\ ret' = [op |-> "Range", start |-> s, end |-> e, out |-> r.out,
                     err |-> r.x.st = "err",
                     height |-> Len(seekToFirst(X, rootID, s, <<>>).stack)])
    /\ reads' = reads + 1
    /\ UNCHANGED <<impl, twin, mem, it, stored, distinct, inserts, recency>>

NextBT ==
    \/ \E k \in BTKeys : \E v \in BTValsOf(k) : BTInsert(k, v)
    \/ \E k \in BTKeys : BTDelete(k)
    \/ \E k \in BTKeys : BTGet(k)
    \/ \E s \in 0 .. 2, e \in MaxKey .. (MaxKey + 2) : BTRange(s, e)

SpecBT == InitBT /\ [][NextBT]_vars

\* what a Range(s, e) of the B-tree has to yield, given what is stored
RECURSIVE BTExpected(_, _)
BTExpected(s, e) ==
    IF s > e THEN <<>>
    ELSE (IF s \in DOMAIN stored THEN <<<<s, stored[s]>>>> ELSE <<>>)
         \o BTExpected(s + 1, e)

\* C18: the stack-based Range(s, e) of the B-tree, iterated to its end, yields
\* the stored keys from s to e, each once, in ascending order, with their
\* values, whatever the height of the tree.
C18_StackRangeCorrect ==
    (impl = "BTree" /\ ret.op = "Range" /\ ~ret.err)
        => /\ status = "open"
           /\ ret.out = BTExpected(ret.start, ret.end)

\* C19: after Delete(k) of a stored key returned nil, Get(k) finds nothing and
\* Get returns every other stored key with its value.
C19_DeleteRemovesOneKey ==
    (impl = "BTree" /\ ret.op = "Delete" /\ ret.known /\ ~ret.err)
        => /\ status = "open"
           /\ BTree_Get(X, ret.key).val = NilValue
           /\ \A k \in DOMAIN stored : BTree_Get(X, k).val = stored[k]

\* C20: Delete(k) of a key that is not stored returns nil, writes no page,
\* leaves root id and block count as they were, and changes the result of no
\* Get and of no Range.
C20_DeleteMissingIsNoop ==
    (impl = "BTree" /\ ret.op = "Delete" /\ ~ret.known)
        => /\ ~ret.err /\ status = "open"
           /\ ret.sameDisk /\ ret.sameRoot /\ ret.sameCount
           /\ ret.sameGets /\ ret.sameScan

---------------------------------------------------------------------------
(* The shape of the tree: descent, splits, root replacement *)

\* the leaves that hold key, and whether the descent for key ends in one
Owners(key) == {id \in Leaves : key \in Elems(KeysAt(id))}
Descends(key) ==
    With(FindLeaf(X, key, Acc), LAMBDA f : f.x.st = "ok" /\ f.id \in Owners(key))

\* C21: on the chained variants the descent for a key that some leaf holds
\* ends, without an error, in a leaf that holds the key, a key equal to a
\* separator included.
C21_FindLeafReachesOwner ==
    (status = "open" /\ impl \in Chained)
        => \A k \in Keys : Owners(Enc64(k)) # {} => Descends(Enc64(k))

\* the (key, value) pairs of a list of cells, and of a page as it reads
Pairs(cells) == [i \in 1 .. Len(cells) |-> <<cells[i].key, cells[i].value>>] \o <<>>
Holds(b, cells) ==
    /\ CellsReadable(Acc, b, NumCells(b), b[OffType] = TypeLeaf)
    /\ Pairs(CellsOf(Acc, b, NumCells(b), b[OffType] = TypeLeaf)) = Pairs(cells)

\* the partition of the n + 1 cells all of a leaf split e at mid = (n + 1) / 2
Partitioned(e) ==
    With(e.call.all, LAMBDA all :
    With(Len(all) \div 2, LAMBDA mid :
    /\ Holds(e.leftPage, SubSeq(all, 1, mid))
    /\ Holds(e.rightPage, SubSeq(all, IF e.copyUp THEN mid + 1 ELSE mid + 2, Len(all)))
    /\ e.promoted = all[mid + 1].key
    /\ e.call.mv = IF e.copyUp THEN NilValue ELSE all[mid + 1].value))

\* C22: a leaf split of n + 1 cells in key order leaves all[0..mid-1] in the
\* left page, each cell with its value, and all[mid..n] in the right page
\* with (all[mid].key, no value) promoted (copy-up), or all[mid+1..n] in the
\* right page with (all[mid].key, all[mid].value) promoted (push-up).
C22_SplitPartition ==
    ret.op = "Insert"
        => \A i \in DOMAIN ret.splits :
              (ret.splits[i].leaf /\ StrictlyAscending(KeysOf(ret.splits[i].call.all)))
                  => Partitioned(ret.splits[i])

\* the child pointers of an internal page, left to right, the rightmost last
Children(b) ==
    [i \in 1 .. (NumCells(b) + 1) |-> ChildAt(b, i - 1, NumCells(b), Acc).id] \o <<>>

\* an internal split e of n cells and the promoted key at idx with right child rc
Conserved(e) ==
    With(e.call.all, LAMBDA all :
    With(Len(all) \div 2, LAMBDA mid :
    /\ CellsReadable(Acc, e.leftPage, NumCells(e.leftPage), FALSE)
    /\ CellsReadable(Acc, e.rightPage, NumCells(e.rightPage), FALSE)
    /\ e.promoted = all[mid + 1].key
    /\ e.promoted \notin Elems(e.left) \cup Elems(e.right)
    /\ e.left \o <<e.promoted>> \o e.right = KeysOf(all)
    /\ Rightmost(e.leftPage) = all[mid + 1].leftChild
    /\ Rightmost(e.rightPage) =
          (IF e.call.idx = Len(all) - 1 THEN e.call.rc ELSE Rightmost(e.call.old))
    /\ Children(e.leftPage) \o Children(e.rightPage)
          = InsertAt(Children(e.call.old), e.call.idx + 1, e.call.rc)
    /\ all[e.call.idx + 1].key = e.key))

\* C23: an internal split leaves the median key in neither page, the median's
\* left child as the left page's rightmost child, the old rightmost child (or
\* the new right child, if the promoted key went in last) as the right page's,
\* and the n + 2 child pointers each once across the two pages, in their
\* order, the new right child just right of the promoted key.
C23_InternalSplitKeepsChildren ==
    ret.op = "Insert"
        => \A i \in DOMAIN ret.splits : ~ret.splits[i].leaf => Conserved(ret.splits[i])

---------------------------------------------------------------------------
(* shared.Tree as dbms/index/shared/tree.go has it: doInsert and splitNode *)
(* differ from the ones above; insertRec and Insert call them              *)

\* all := the cells with the new one at idx, its left child read with
\* ChildAt in a leaf too
TreeGo_splitNodeCells(acc, h, n, idx, key, value, rightChild, pre, leaf) ==
    With(InsertAt(pre, idx,
                  [BadCell EXCEPT !.key = key, !.value = value,
                                  !.leftChild = ChildAt(h.b, idx, n, acc).id]),
         LAMBDA all0 :
         IF idx # n /\ ~leaf THEN [all0 EXCEPT ![idx + 2].leftChild = rightChild]
         ELSE all0)

\* the two pages of a split, filled: [left, right]; the leaves are linked
\* with oldRightmost
TreeGo_splitNodePages(acc, h, n, idx, rightChild, all, newID, leaf) ==
    LET pageType == h.b[OffType]
        mid == (n + 1) \div 2
        oldRightmost == IF idx = n THEN rightChild ELSE Rightmost(h.b)
        p0 == InitPage(h, pageType)
        right0 == InitPage(Handle(ZeroPage), pageType)
    IN  IF leaf
        THEN LinkLeaves(acc, fillCells(acc, p0, all, 0, mid - 1),
                        fillCells(acc, right0, all,
                                  IF CopyUpLeaves(acc) THEN mid ELSE mid + 1, n),
                        newID, oldRightmost)
        ELSE [left |-> fillCells(acc, SetRightmost(p0, all[mid + 1].leftChild),
                                 all, 0, mid - 1),
              right |-> fillCells(acc, SetRightmost(right0, oldRightmost),
                                  all, mid + 1, n)]

TreeGo_splitNode(acc, x, id, h, n, idx, key, value, rightChild) ==
    IF ~CellsReadable(acc, h.b, n, h.b[OffType] = TypeLeaf) \/ ~ChildAt(h.b, idx, n, acc).ok
    THEN NoSplit(Crash(x))
    ELSE
    With(h.b[OffType] = TypeLeaf, LAMBDA leaf :
    With(CellsOf(acc, h.b, n, leaf), LAMBDA pre :
    With(TreeGo_splitNodeCells(acc, h, n, idx, key, value, rightChild, pre, leaf), LAMBDA all :
    With(Allocate(x), LAMBDA a :
    With(TreeGo_splitNodePages(acc, h, n, idx, rightChild, all, a.id, leaf), LAMBDA pp :
    LET median == all[((n + 1) \div 2) + 1] IN
    IF ~pp.left.ok \/ ~pp.right.ok THEN NoSplit(Crash(a.x))
    ELSE Res(Logged(Write(Write(a.x, id, pp.left.b), a.id, pp.right.b),
                    acc, leaf, id, a.id, KeysOf(pre), key, median.key,
                    pp.left.b, pp.right.b,
                    Call(h.b, all, idx, rightChild, median.value)),
             median.key, median.value, a.id, TRUE))))))

TreeGo_doInsert(acc, x, id, b, n, idx, key, value, rightChild) ==
    With(b[OffType] = TypeLeaf, LAMBDA leaf :
    With(CellSize(acc, leaf, value), LAMBDA size :
    IF FreeSpace(b, n) >= size
    THEN With(ShiftPtrsUp(Handle(b), n, idx), LAMBDA h2 :
         With(ChildAt(h2.b, idx, n, acc), LAMBDA lc :
         With(SetCellPtr(
                  WriteCell(acc, AllocCell(h2, size), AllocTop(b, size),
                            key, value, lc.id, leaf),
                  idx, U16(AllocTop(b, size))), LAMBDA h3 :
         With(SetNumCells(setChildAfter(h3, n, idx, rightChild, leaf), n + 1), LAMBDA h5 :
         IF ~h2.ok \/ ~lc.ok \/ ~h5.ok THEN NoSplit(Crash(x))
         ELSE NoSplit(Must(Write(x, id, h5.b)))))))
    ELSE TreeGo_splitNode(acc, x, id, Handle(b), n, idx, key, value, rightChild)))

TreeGo_insertPromoted(acc, id, sub) ==
    IF sub.x.st # "ok" \/ ~sub.split THEN NoSplit(sub.x)
    ELSE
    With(Read(sub.x, id), LAMBDA r2 :
    IF r2.err THEN NoSplit(Failed(r2.x))
    ELSE
    With(FindIdx(r2.b, sub.mk, NumCells(r2.b), acc, FALSE), LAMBDA s2 :
    IF ~s2.ok THEN NoSplit(Crash(r2.x))
    ELSE TreeGo_doInsert(acc, r2.x, id, r2.b, NumCells(r2.b), s2.idx, sub.mk, sub.mv, sub.rc)))

RECURSIVE TreeGo_insertRec(_, _, _, _, _, _)
TreeGo_insertRec(acc, x, id, key, value, depth) ==
    IF depth > MaxDepth THEN NoSplit(Hang(x))
    ELSE
    With(Read(x, id), LAMBDA r :
    IF r.err THEN NoSplit(Failed(r.x))
    ELSE
    With(NumCells(r.b), LAMBDA n0 :
    With(r.b[OffType] = TypeLeaf, LAMBDA leaf :
    With(FindIdx(r.b, key, n0, acc, leaf), LAMBDA s :
    With(IF s.ok /\ s.idx < n0 THEN ReadCell(acc, r.b, s.idx, leaf) ELSE BadCell, LAMBDA c :
    LET idx == s.idx
        existing == idx < n0 /\ c.ok /\ c.key = key
        n == IF existing THEN n0 - 1 ELSE n0
    IN
    IF ~s.ok \/ (idx < n0 /\ ~c.ok) THEN NoSplit(Crash(r.x))
    ELSE IF existing /\ LenV(value) <= LenV(c.value)
    THEN With(OverwriteValue(acc, Handle(r.b), idx, value, leaf), LAMBDA h1 :
         IF ~h1.ok THEN NoSplit(Crash(r.x)) ELSE NoSplit(Must(Write(r.x, id, h1.b))))
    ELSE
    With(IF existing THEN DeleteCell(Handle(r.b), idx) ELSE Handle(r.b), LAMBDA h1 :
    With(IF existing THEN Poke(r.x, id, h1.b) ELSE r.x, LAMBDA x1 :
    IF ~h1.ok THEN NoSplit(Crash(r.x))
    ELSE IF leaf THEN TreeGo_doInsert(acc, x1, id, h1.b, n, idx, key, value, 0)
    ELSE
    With(ChildAt(h1.b, idx, n, acc), LAMBDA ch :
    IF ~ch.ok THEN NoSplit(Crash(x1))
    ELSE TreeGo_insertPromoted(acc, id,
                               TreeGo_insertRec(acc, x1, ch.id, key, value, depth + 1))))))))))

TreeGo_Insert(acc, x, key, value) ==
    With(TreeGo_insertRec(acc, x, x.rootID, key, value, 0), LAMBDA r :
    IF r.x.st # "ok" \/ ~r.split THEN r.x
    ELSE
    With(Allocate(r.x), LAMBDA a :
    With(AppendCell(acc,
                    SetRightmost(InitPage(Handle(ZeroPage), TypeInternal), r.rc),
                    r.mk, r.mv, x.rootID), LAMBDA p :
    IF ~p.ok THEN Crash(a.x)
    ELSE writeHeader([Write(a.x, a.id, p.b) EXCEPT !.rootID = a.id]))))

\* the generic tree of tree.go as a program: Insert and Get
InitTreeGo == Init /\ impl # "BPTree"

TreeGoInsert(k, v) ==
    /\ status = "open" /\ pageCount < MaxPages /\ inserts < MaxInserts /\ reads = 0
    /\ InsertEnds(k, v, TreeGo_Insert(Acc, X, Enc64(k), v))
    /\ UNCHANGED <<impl, twin, mem, it, reads, recency>>

NextTreeGo ==
    \/ \E k \in Keys, v \in Vals : TreeGoInsert(k, v)
    \/ \E k \in GetKeys : Get(k)

SpecTreeGo == InitTreeGo /\ [][NextTreeGo]_vars

\* C24: a split of a chained leaf L into L and the new page R leaves the id
\* of R as L's next-leaf pointer and the next-leaf pointer L had before the
\* split as R's.
C24_LeafLinking ==
    (ret.op = "Insert" /\ impl \in Chained)
        => \A i \in DOMAIN ret.splits :
              ret.splits[i].leaf
                  => /\ NextLeaf(ret.splits[i].leftPage) = ret.splits[i].newID
                     /\ NextLeaf(ret.splits[i].rightPage) = NextLeaf(ret.splits[i].call.old)

---------------------------------------------------------------------------
(* Root replacement *)

\* the splits of the root page the last Insert made
RootSplits == {i \in DOMAIN ret.splits : ret.splits[i].id = ret.rootBefore}

\* the root of x is a new internal page with the one cell (e.promoted, old
\* root) and e.newID as its rightmost child, and the tree is one level
\* higher than it was
NewRootOver(x, e, was) ==
    With(View(x, x.rootID), LAMBDA b :
    /\ x.rootID >= was.root + 1 /\ x.rootID = x.pageCount - 1
    /\ was.alloc = was.splits + 1
    /\ b[OffType] = TypeInternal /\ NumCells(b) = 1
    /\ With(ReadCell(Acc, b, 0, FALSE), LAMBDA c :
            c.ok /\ c.key = e.promoted /\ c.leftChild = was.root)
    /\ Rightmost(b) = e.newID
    /\ x.disk[x.rootID] = b
    /\ Height(x) = was.height + 1)

\* what an Insert left of the root of x, given the splits of the old root
\* it made and the root, height and counts it began with
Replaced(x, splits, was) ==
    IF splits = {}
    THEN x.rootID = was.root /\ Height(x) = was.height
    ELSE \A e \in splits : NewRootOver(x, e, was)

\* the splits of page root in a split history
SplitsOf(log, root) ==
    {[promoted |-> log[i].promoted, newID |-> log[i].newID]
        : i \in {j \in DOMAIN log : log[j].id = root}}

---------------------------------------------------------------------------
(* Balance *)

\* the depths of the leaves below page id, -1 for a way that leaves the
\* tree pages or does not end
RECURSIVE LeafDepths(_, _)
LeafDepths(id, depth) ==
    IF id \notin 2 .. (pageCount - 1) \/ depth > MaxDepth THEN {0 - 1}
    ELSE With(View(X, id), LAMBDA b :
         IF b[OffType] = TypeLeaf THEN {depth}
         ELSE IF NumCells(b) > MaxSlots THEN {0 - 1}
         ELSE UNION {With(ChildAt(b, i, NumCells(b), Acc), LAMBDA ch :
                          IF ch.ok THEN LeafDepths(ch.id, depth + 1) ELSE {0 - 1})
                     : i \in 0 .. NumCells(b)})

Balanced == \E d \in 0 .. MaxDepth : LeafDepths(rootID, 0) = {d}

\* an internal page with n cells names n + 1 tree pages, no two the same
FullFanOut(id) ==
    With(View(X, id), LAMBDA b :
    b[OffType] = TypeLeaf
    \/ /\ NumCells(b) <= MaxSlots
       /\ \A i \in 0 .. NumCells(b) :
             With(ChildAt(b, i, NumCells(b), Acc), LAMBDA ch :
                  ch.ok /\ ch.id \in 2 .. (pageCount - 1))
       /\ Cardinality(ChildIds(X, b)) = NumCells(b) + 1)

\* no tree page of the file is of another kind after the step
KindsKept ==
    \A id \in 2 .. (pageCount - 1) :
        /\ disk'[id][OffType] = disk[id][OffType]
        /\ View(X, id)'[OffType] = View(X, id)[OffType]

BalancedTree == status = "open" => Balanced /\ \A id \in Reachable : FullFanOut(id)

\* C26: after Open and after every Insert that returned, all leaves are at
\* the same depth and every internal page with n cells has n + 1 children;
\* no step changes the kind of a page written before.
C26_Balance == [](BalancedTree) /\ [][status' = "open" => KindsKept]_vars

---------------------------------------------------------------------------
(* What an Insert leaves alone *)

\* C27: an Insert(k, v) that returned changes the result of Get(k') for no
\* key k' other than k: a key found before is found with the same value, a
\* key not found before is not found.
C27_InsertOwnKeyOnly ==
    (ret.op = "Insert" /\ status = "open")
        => \A j \in Keys \ {ret.key} :
              With(IndexGet(X, j), LAMBDA g :
                   g.x.st = "ok" /\ g.val = ret.getsBefore[j])

---------------------------------------------------------------------------
(* The same calls made on two indexes that differ in cache capacity only:  *)
(* the index of the other variables, and twin with a cache no run fills    *)

BigCap == MaxPages + 1

\* the twin as an execution state, and back
XT == [X EXCEPT !.pageCount = twin.pageCount, !.disk = twin.disk,
                !.cache = twin.cache, !.rootID = twin.rootID]
Kept(y) ==
    [pageCount |-> y.pageCount, disk |-> y.disk, cache |-> y.cache, rootID |-> y.rootID,
     status |-> IF y.st \in {"panic", "hang"} THEN "crashed" ELSE "open"]

IndexOpen(cap) == IF impl = "BPTree" THEN BPTree_Open(cap) ELSE Tree_Open(cap)

InitCache ==
    /\ impl \in Impls
    /\ Opened(IndexOpen(1))
    /\ twin = Kept(IndexOpen(BigCap))
    /\ mem = NoMem
    /\ status = "open"
    /\ it = NoIter
    /\ ret = [op |-> "Open"]
    /\ stored = NoStored
    /\ distinct = TRUE
    /\ inserts = 0
    /\ reads = 0
    /\ recency = <<>>

BothOpen == status = "open" /\ twin.status = "open"

\* Insert(k, v) ended in y on the index and in t on the twin
BothInserted(k, v, y, t) ==
    /\ Install(y)
    /\ twin' = Kept(t)
    /\ ret' = [op |-> "Insert", key |-> k, val |-> v, err |-> y.st = "err",
               twinErr |-> t.st = "err",
               twinSplits |-> SplitsOf(t.log, twin.rootID),
               twinWas |-> [root |-> twin.rootID, height |-> Height(XT),
                            alloc |-> t.pageCount - twin.pageCount,
                            splits |-> Len(t.log)]]
    /\ stored' = IF y.st = "ok" THEN (k :> v) @@ stored ELSE stored
    /\ distinct' = (distinct /\ k \notin DOMAIN stored)
    /\ inserts' = inserts + 1

BothInsert(k, v) ==
    /\ BothOpen /\ pageCount < MaxPages /\ twin.pageCount < MaxPages
    /\ inserts < MaxInserts
    /\ BothInserted(k, v, IndexInsert(X, k, v), IndexInsert(XT, k, v))
    /\ UNCHANGED <<impl, mem, it, reads, recency>>

\* Get(k) returned g on the index and t on the twin
BothGot(k, g, t) ==
    /\ Install(g.x)
    /\ twin' = Kept(t.x)
    /\ ret' = [op |-> "Get", key |-> k, val |-> g.val, err |-> g.x.st = "err",
               twinVal |-> t.val, twinErr |-> t.x.st = "err"]

BothGet(k) ==
    /\ BothOpen /\ reads < MaxReads
    /\ BothGot(k, IndexGet(X, k), IndexGet(XT, k))
    /\ reads' = reads + 1
    /\ UNCHANGED <<impl, mem, it, stored, distinct, inserts, recency>>

\* Range(s, e), iterated until Next returned false, yielded sc on the index
\* and t on the twin
BothRanged(s, e, sc, t) ==
    /\ Install([sc.x EXCEPT !.st = sc.st])
    /\ twin' = Kept([t.x EXCEPT !.st = t.st])
    /\ ret' = [op |-> "Range", start |-> s, end |-> e, out |-> sc.out,
               err |-> sc.st = "err", twinOut |-> t.out, twinErr |-> t.st = "err"]

BothRange(s, e) ==
    /\ BothOpen /\ impl = "BPTree" /\ reads < MaxReads
    /\ BothRanged(s, e, Scan(X, s, e), Scan(XT, s, e))
    /\ reads' = reads + 1
    /\ UNCHANGED <<impl, mem, it, stored, distinct, inserts, recency>>

NextCache ==
    \/ \E k \in Keys, v \in Vals : BothInsert(k, v)
    \/ \E k \in GetKeys : BothGet(k)
    \/ \E b \in RangeBounds : BothRange(b[1], b[2])

SpecCache == InitCache /\ [][NextCache]_vars

\* C25: an Insert whose recursive insert split the root leaves a newly
\* allocated internal page as the root, with one cell holding the promoted
\* key and the old root as left child and with the new right page as
\* rightmost child, and a tree one level higher; any other Insert leaves the
\* root id and the height as they were. Stated of the index, and of the twin
\* where there is one.
C25_RootReplacement ==
    /\ (ret.op = "Insert" /\ status = "open" /\ twin.status = "none")
          => Replaced(X, SplitsOf(ret.splits, ret.rootBefore),
                      [root |-> ret.rootBefore, height |-> ret.heightBefore,
                       alloc |-> ret.alloc, splits |-> Len(ret.splits)])
    /\ (ret.op = "Insert" /\ twin.status = "open" /\ ~ret.twinErr)
          => Replaced(XT, ret.twinSplits, ret.twinWas)

\* C28: the same sequence of Insert, Get and Range calls made on an index
\* with cache capacity 1 and on one whose cache is never full returns
\* the same value from every Get and yields the same entries from every Range.
C28_CacheTransparency ==
    /\ ret.op = "Get"
          => ret.val = ret.twinVal /\ ret.err = ret.twinErr /\ status = twin.status
    /\ ret.op = "Range"
          => ret.out = ret.twinOut /\ ret.err = ret.twinErr /\ status = twin.status

---------------------------------------------------------------------------
(* The order of the writes of an Insert that replaces the root *)

\* the places in the write history of the last Insert where block id was written
WritesOf(id) == {i \in DOMAIN ret.writes : ret.writes[i].id = id}

\* the header write is the last write, it comes after a write of each of the
\* three pages, and the root id on disk is the old one before it, the new
\* one after it
HeaderLast(e) ==
    With(Len(ret.writes), LAMBDA h :
    /\ WritesOf(1) = {h}
    /\ \A id \in {e.id, e.newID, rootID} : \E i \in WritesOf(id) : i < h
    /\ ret.writes[h].root = rootID
    /\ \A i \in 1 .. (h - 1) : ret.writes[i].root = ret.rootBefore)

\* the last call was an Insert that returned nil, with or without a failed
\* file access on its way
ReturnedNil ==
    \/ ret.op = "Insert" /\ status = "open" /\ ~ret.err
    \/ ret.op = "FaultyInsert" /\ ret.st = "ok"

\* C29: in an Insert that replaces the root, block 1 is written with the new
\* root id after both pages of the root split and the new root page were
\* written, and after every write of the Insert the root id in block 1 on
\* disk names a block written before.
C29_HeaderWrittenLast ==
    (ReturnedNil /\ rootID # ret.rootBefore)
        => /\ \A i \in RootSplits : HeaderLast(ret.splits[i])
           /\ RootSplits # {}
           /\ \A i \in DOMAIN ret.writes : ret.writes[i].valid

(* Key uniqueness of the push-up layout *)

\* the tree pages as a Read returns them, and as the file holds them
CachedPages == [id \in DOMAIN disk |-> View(X, id)]

\* the pages reachable in pages from the pages seen
RECURSIVE ReachIn(_, _)
ReachIn(pages, seen) ==
    With(UNION {ChildIds(X, pages[id]) : id \in seen}, LAMBDA more :
    IF more \subseteq seen THEN seen ELSE ReachIn(pages, seen \cup more))

\* the cells <<page, index>> of the tree below root that hold key
CellsWith(pages, root, key) ==
    UNION {With(KeysIn(Acc, pages[id]), LAMBDA keys :
                {<<id, i>> : i \in {j \in DOMAIN keys : keys[j] = key}})
           : id \in ReachIn(pages, {root} \cap DOMAIN disk)}

Unique(pages, root) ==
    \A k \in Keys : Cardinality(CellsWith(pages, root, Enc64(k))) <= 1

\* C30: in the push-up layout no key is held by two cells of the tree,
\* internal or leaf, neither in the pages as read through the cache nor in
\* the pages of the file, after any Inserts, repeated keys with shorter,
\* equal or longer values included.
C30_KeyUniqueness ==
    (status = "open" /\ impl = "BTreeAcc")
        => Unique(CachedPages, rootID) /\ Unique(disk, HeaderRoot)

---------------------------------------------------------------------------
(* Space after a split *)

\* the cell content of page b begins behind its pointer array and inside
\* the page
Fits(b) ==
    /\ CellContent(b) >= OffCellPtrs + CellPtrSize * NumCells(b)
    /\ CellContent(b) <= PageSize

\* C31: after a split of the generic tree, the left and the right page both
\* have their free-space top at or above 13 + 2 * cell count and inside the
\* page: no cell of the rebuild was put over the pointer array, and the top
\* did not wrap around as a 16-bit value.
C31_SplitFits ==
    (ret.op = "Insert" /\ impl # "BPTree")
        => \A i \in DOMAIN ret.splits :
              Fits(ret.splits[i].leftPage) /\ Fits(ret.splits[i].rightPage)

---------------------------------------------------------------------------
(* The list of the cache.  get and put as in SpecLRU, on caches of every   *)
(* capacity from 0.                                                        *)

InitLRUAny ==
    /\ impl = "cache"
    /\ pageCount = 0
    /\ disk = <<>>
    /\ \E cap \in 0 .. MaxCap : cache = newLRUCache(cap)
    /\ rootID = 0
    /\ status = "open"
    /\ it = NoIter
    /\ ret = [op |-> "new", id |-> NilEntry, hit |-> FALSE,
              before |-> {}, oldest |-> NilEntry]
    /\ stored = NoStored
    /\ distinct = TRUE
    /\ inserts = 0
    /\ reads = 0
    /\ recency = <<>>
    /\ twin = NoTwin
    /\ mem = NoMem

SpecLRUAny == InitLRUAny /\ [][NextLRU]_vars

\* the ids met from entry e on by next (fwd) or by prev, NilEntry last where
\* the walk meets an id that is no key of the map or does not end
RECURSIVE Walk(_, _, _, _)
Walk(c, e, fwd, fuel) ==
    IF e = NilEntry THEN <<>>
    ELSE IF fuel = 0 \/ e \notin DOMAIN c.items THEN <<NilEntry>>
    ELSE <<e>> \o Walk(c, IF fwd THEN c.items[e].next ELSE c.items[e].prev,
                       fwd, fuel - 1)

Reverse(seq) == [i \in 1 .. Len(seq) |-> seq[Len(seq) + 1 - i]] \o <<>>

FromHead == Walk(cache, cache.head, TRUE, Cardinality(DOMAIN cache.items) + 1)
FromTail == Walk(cache, cache.tail, FALSE, Cardinality(DOMAIN cache.items) + 1)

\* C32: after every get and put on a cache of capacity c >= 0 the map has
\* at most c entries; the list from head by next holds the keys of the map,
\* each once; the list from tail by prev is its reverse; head has no prev
\* and tail no next; and head is nil exactly when tail is nil exactly when
\* the map is empty.
C32_CacheStructure ==
    /\ Cardinality(DOMAIN cache.items) <= cache.cap
    /\ Elems(FromHead) = DOMAIN cache.items
    /\ Len(FromHead) = Cardinality(DOMAIN cache.items)
    /\ FromTail = Reverse(FromHead)
    /\ cache.head # NilEntry => cache.items[cache.head].prev = NilEntry
    /\ cache.tail # NilEntry => cache.items[cache.tail].next = NilEntry
    /\ (cache.head = NilEntry) = (cache.tail = NilEntry)
    /\ (cache.head = NilEntry) = (DOMAIN cache.items = {})

\* a get hit the tail of a list of two and moved it to the head
C32_Witness ==
    /\ ret.op = "get" /\ ret.hit /\ ret.oldest = ret.id
    /\ Len(FromHead) = 2 /\ FromHead[1] = ret.id

---------------------------------------------------------------------------
(* The pages Next reads *)

\* leaf b is the one the next-leaf pointer of leaf a names
Follows(a, b) == NextLeaf(View(X, a)) = b

\* Next returned false at the leaf where it had to: at a cell with a key
\* above end, or behind the last cell of the leaf that has no next leaf
EndsAt(id, idx) ==
    With(View(X, id), LAMBDA b :
    IF idx < NumCells(b)
    THEN With(readLeafCell(b, idx), LAMBDA c : c.ok /\ KeyLess(Enc64(ret.end), c.key))
    ELSE NextLeaf(b) = InvalidPage)

---------------------------------------------------------------------------
(* Occupancy of the B-tree of btree.go after Delete *)

\* the nodes below page id: [id, depth, leaf, n, keys], and id 0 with n = -1
\* where a child pointer leaves the tree pages or the way does not end
RECURSIVE BTNodes(_, _)
BTNodes(id, depth) ==
    IF id \notin 2 .. (pageCount - 1) \/ depth > MaxDepth
    THEN {[id |-> 0, depth |-> depth, leaf |-> TRUE, n |-> 0 - 1, keys |-> <<>>]}
    ELSE With(View(X, id), LAMBDA pg :
         {[id |-> id, depth |-> depth, leaf |-> pg.type = typeLeaf, n |-> numKeys(pg),
           keys |-> [i \in 1 .. (IF numKeys(pg) <= order THEN numKeys(pg) ELSE order)
                        |-> getSlot(pg, i - 1).k] \o <<>>]}
         \cup (IF pg.type = typeLeaf \/ numKeys(pg) > order THEN {}
               ELSE UNION {BTNodes(childPageID(pg, pos), depth + 1)
                              : pos \in 0 .. numKeys(pg)}))

Ascending(keys) == \A i \in 1 .. (Len(keys) - 1) : keys[i] < keys[i + 1]

\* every node but the root holds minKeys .. maxKeys keys, the root at most
\* maxKeys and, as an internal node, at least one; keys ascend in every
\* node; all leaves are at one depth; block 1 names the root
BTOccupancy ==
    With(BTNodes(rootID, 0), LAMBDA nodes :
    /\ \A nd \in nodes :
          /\ nd.n >= (IF nd.depth = 0 THEN (IF nd.leaf THEN 0 ELSE 1) ELSE minKeys)
          /\ nd.n <= maxKeys
          /\ Ascending(nd.keys)
    /\ Cardinality({nd.depth : nd \in {m \in nodes : m.leaf}}) = 1
    /\ HeaderRoot = rootID)

\* C34: after every Delete that returned nil, every node of the B-tree but
\* the root holds at least minKeys and at most maxKeys keys (so no merge made
\* a node of more than maxKeys keys), all leaves are at the same depth, the
\* keys of every node ascend strictly, and a root left as an internal node
\* without keys has given way to its first child, with the new root id in
\* the header.
C34_DeleteKeepsOccupancy ==
    (impl = "BTree" /\ ret.op = "Delete" /\ ~ret.err /\ status = "open")
        => BTOccupancy

----------------------------------------------------------------------------
\* The LSM tree of src/src/index/lsmtree: a memtable in insertion order and
\* five levels of sorted segments, each with a Bloom filter.

MaxLsmKey == 2
MaxThreshold == 3
MaxLsmOps == 5
\* the number of segments at which a level is compacted (10 in the source)
CompactAt == 2
\* make([][]Segment, 5)
NumLevels == 5
LsmKeys == 1 .. MaxLsmKey
LsmVals == {<<1>>, <<2>>}
\* Entry.Val == nil, the tombstone
nilVal == <<0 - 1>>

Entry(k, v) == [Key |-> k, Val |-> v]

\* ---- bloom.go: hash/fnv New32a over the salt byte and the eight key
\* bytes, kept in 16-bit halves so that no product leaves 31 bits
RECURSIVE Xor8(_, _, _)
Xor8(a, b, bits) ==
    IF bits = 0 THEN 0
    ELSE (((a % 2) + (b % 2)) % 2) + 2 * Xor8(a \div 2, b \div 2, bits - 1)

\* offset32 = 2166136261 = 0x811C9DC5
fnvOffset == [hi |-> 33052, lo |-> 40389]

\* hash ^= c; hash *= prime32 (16777619 = 0x01000193), modulo 2^32
fnvWriteByte(h, c) ==
    With((h.lo - (h.lo % 256)) + Xor8(h.lo % 256, c, 8), LAMBDA lo :
        [hi |-> ((h.hi * 403) + (lo * 256) + ((lo * 403) \div 65536)) % 65536,
         lo |-> (lo * 403) % 65536])

RECURSIVE fnvWrite(_, _)
fnvWrite(h, bytes) ==
    IF bytes = <<>> THEN h ELSE fnvWrite(fnvWriteByte(h, Head(bytes)), Tail(bytes))

RECURSIVE keyBytes(_, _)
keyBytes(key, n) ==
    IF n = 0 THEN <<>> ELSE <<key % 256>> \o keyBytes(key \div 256, n - 1)

\* h.Sum32() % b.m
Sum32Mod(h, m) == (((h.hi % m) * (65536 % m)) + (h.lo % m)) % m

NewBloom(size, k) == [bits |-> {}, m |-> size, k |-> k]

getHashes(b, key) ==
    [i \in 1 .. b.k |->
        Sum32Mod(fnvWrite(fnvWrite(fnvOffset, <<i - 1>>), keyBytes(key, 8)), b.m)]

Bloom_Add(b, key) ==
    [b EXCEPT !.bits = @ \cup {getHashes(b, key)[i] : i \in 1 .. b.k}]

Bloom_Test(b, key) ==
    \A i \in 1 .. b.k : getHashes(b, key)[i] \in b.bits

RECURSIVE addAll(_, _)
addAll(b, data) ==
    IF data = <<>> THEN b ELSE addAll(Bloom_Add(b, Head(data).Key), Tail(data))

Segment(data) == [Data |-> data, Filter |-> addAll(NewBloom(Len(data) * 10, 3), data)]

\* ---- lsmtree.go
NewLSM(threshold) ==
    [kind |-> "lsm", MemTable |-> <<>>, Levels |-> [i \in 1 .. NumLevels |-> <<>>],
     Threshold |-> threshold]

RECURSIVE Concat(_)
Concat(segs) == IF segs = <<>> THEN <<>> ELSE Head(segs).Data \o Concat(Tail(segs))

\* sort.SliceStable by key: entries of one key keep their order
RECURSIVE SliceStable(_, _)
SliceStable(s, k) ==
    IF s = <<>> THEN <<>>
    ELSE SelectSeq(s, LAMBDA e : e.Key = k)
            \o SliceStable(SelectSeq(s, LAMBDA e : e.Key # k), k + 1)

RECURSIVE dedupe(_, _)
dedupe(combined, i) ==
    IF i > Len(combined) THEN <<>>
    ELSE (IF i > 1 /\ combined[i].Key = combined[i - 1].Key THEN <<>>
          ELSE <<combined[i]>>) \o dedupe(combined, i + 1)

RECURSIVE checkCompaction(_, _)
compactLevel(l, level) ==
    With(dedupe(SliceStable(Concat(l.Levels[level + 1]), 0), 1), LAMBDA compacted :
        checkCompaction(
            [l EXCEPT !.Levels[level + 2] = <<Segment(compacted)>> \o @,
                      !.Levels[level + 1] = <<>>],
            level + 1))

checkCompaction(l, level) ==
    IF Len(l.Levels[level + 1]) >= CompactAt /\ level < NumLevels - 1
    THEN compactLevel(l, level)
    ELSE l

\* slices.SortFunc by key is not a stable sort: every arrangement of the
\* memtable in which the keys do not descend is a possible outcome
SortFunc(s) ==
    {[i \in 1 .. Len(s) |-> s[p[i]]] :
        p \in {q \in [1 .. Len(s) -> 1 .. Len(s)] :
                  /\ \A i, j \in 1 .. Len(s) : i # j => q[i] # q[j]
                  /\ \A i \in 1 .. (Len(s) - 1) : s[q[i]].Key <= s[q[i + 1]].Key}}

\* the states flush can leave
flush(l) ==
    {checkCompaction([l EXCEPT !.Levels[1] = <<Segment(sorted)>> \o @,
                               !.MemTable = <<>>], 0)
        : sorted \in SortFunc(l.MemTable)}

LSM_Insert(l, k, v) ==
    With([l EXCEPT !.MemTable = Append(@, Entry(k, v))], LAMBDA a :
        IF Len(a.MemTable) >= a.Threshold THEN flush(a) ELSE {a})

LSM_Delete(l, k) == LSM_Insert(l, k, nilVal)

\* slices.BinarySearchFunc: the first position whose key is not below the
\* target, and whether the key there is the target
BinarySearchFunc(data, key) ==
    With(Cardinality({i \in 1 .. Len(data) : data[i].Key < key}), LAMBDA below :
        [idx |-> below + 1,
         found |-> below < Len(data) /\ data[below + 1].Key = key])

Found(v) == IF v = nilVal THEN [val |-> nilVal, err |-> "deleted"]
            ELSE [val |-> v, err |-> "nil"]

RECURSIVE memSearch(_, _, _)
memSearch(mt, key, i) ==
    IF i < 1 THEN [hit |-> FALSE]
    ELSE IF mt[i].Key = key THEN [hit |-> TRUE, res |-> Found(mt[i].Val)]
    ELSE memSearch(mt, key, i - 1)

RECURSIVE segSearch(_, _, _)
segSearch(segs, key, i) ==
    IF i > Len(segs) THEN [val |-> nilVal, err |-> "not found"]
    ELSE IF ~Bloom_Test(segs[i].Filter, key) THEN segSearch(segs, key, i + 1)
    ELSE With(BinarySearchFunc(segs[i].Data, key), LAMBDA r :
            IF r.found THEN Found(segs[i].Data[r.idx].Val)
            ELSE segSearch(segs, key, i + 1))

RECURSIVE AllSegments(_, _)
AllSegments(l, level) ==
    IF level > NumLevels THEN <<>> ELSE l.Levels[level] \o AllSegments(l, level + 1)

LSM_Get(l, key) ==
    With(memSearch(l.MemTable, key, Len(l.MemTable)), LAMBDA m :
        IF m.hit THEN m.res ELSE segSearch(AllSegments(l, 1), key, 1))

\* ---- MergeHeap under container/heap; positions count from 0 as in Go
MergeHeap_Less(h, i, j) ==
    h[i + 1].data[h[i + 1].index + 1].Key < h[j + 1].data[h[j + 1].index + 1].Key

MergeHeap_Swap(h, i, j) == [h EXCEPT ![i + 1] = h[j + 1], ![j + 1] = h[i + 1]]

\* heap.up: (j - 1) / 2 is 0 for j = 0, where the loop ends
RECURSIVE heap_up(_, _)
heap_up(h, j) ==
    IF j = 0 \/ ~MergeHeap_Less(h, j, (j - 1) \div 2) THEN h
    ELSE heap_up(MergeHeap_Swap(h, (j - 1) \div 2, j), (j - 1) \div 2)

RECURSIVE heap_down(_, _, _)
heap_down(h, i, n) ==
    IF 2 * i + 1 >= n THEN h
    ELSE With(IF 2 * i + 2 < n /\ MergeHeap_Less(h, 2 * i + 2, 2 * i + 1)
              THEN 2 * i + 2 ELSE 2 * i + 1, LAMBDA j :
            IF ~MergeHeap_Less(h, j, i) THEN h
            ELSE heap_down(MergeHeap_Swap(h, i, j), j, n))

heap_Push(h, x) == heap_up(Append(h, x), Len(h))

heap_Pop(h) ==
    With(heap_down(MergeHeap_Swap(h, 0, Len(h) - 1), 0, Len(h) - 1), LAMBDA d :
        [h |-> SubSeq(d, 1, Len(d) - 1), item |-> d[Len(d)]])

HeapItem(data) == [data |-> data, index |-> 0]

RECURSIVE pushAll(_, _)
pushAll(h, datas) ==
    IF datas = <<>> THEN h
    ELSE pushAll(IF Len(Head(datas)) > 0 THEN heap_Push(h, HeapItem(Head(datas))) ELSE h,
                 Tail(datas))

RECURSIVE DataOf(_)
DataOf(segs) == IF segs = <<>> THEN <<>> ELSE <<Head(segs).Data>> \o DataOf(Tail(segs))

\* the loop of Range: s is [h, final, lastKey, first]
RECURSIVE mergeLoop(_, _, _)
mergeLoop(s, start, end) ==
    IF s.h = <<>> THEN s.final
    ELSE With(heap_Pop(s.h), LAMBDA p :
         With(p.item.data[p.item.index + 1], LAMBDA entry :
         With(entry.Key >= start /\ entry.Key <= end
                 /\ (s.first \/ entry.Key # s.lastKey), LAMBDA take :
            mergeLoop(
                [h |-> IF p.item.index + 1 < Len(p.item.data)
                       THEN heap_Push(p.h, [p.item EXCEPT !.index = @ + 1])
                       ELSE p.h,
                 final |-> IF take /\ entry.Val # nilVal
                           THEN Append(s.final, entry) ELSE s.final,
                 lastKey |-> IF take THEN entry.Key ELSE s.lastKey,
                 first |-> s.first /\ ~take],
                start, end))))

\* the entries the LSMIterator of Range(start, end) yields, in its order
LSM_Range(l, start, end) ==
    mergeLoop([h |-> pushAll(<<>>, <<l.MemTable>> \o DataOf(AllSegments(l, 1))),
               final |-> <<>>, lastKey |-> 0 - 1, first |-> TRUE],
              start, end)

\* ---- the LSM tree as a state machine
InitLSM ==
    /\ impl = "LSM"
    /\ pageCount = 0
    /\ disk = <<>>
    /\ cache = newLRUCache(0)
    /\ rootID = 0
    /\ status = "open"
    /\ it = NoIter
    /\ ret = [op |-> "NewLSM"]
    /\ stored = NoStored
    /\ distinct = TRUE
    /\ inserts = 0
    /\ reads = 0
    /\ recency = <<>>
    /\ twin = NoTwin
    /\ \E threshold \in 1 .. MaxThreshold : mem = NewLSM(threshold)

\* the history: the last value written for k, nilVal by a Delete
Written(k, v) == [x \in DOMAIN stored \cup {k} |-> IF x = k THEN v ELSE stored[x]]

\* how many entries of key k the memtable held before the call
InMem(k) == Cardinality({i \in DOMAIN mem.MemTable : mem.MemTable[i].Key = k})

LsmInsert(k, v) ==
    /\ inserts < MaxLsmOps
    /\ \E l \in LSM_Insert(mem, k, v) : mem' = l
    /\ stored' = Written(k, v)
    /\ distinct' = (distinct /\ k \notin DOMAIN stored)
    /\ inserts' = inserts + 1
    /\ ret' = [op |-> "Insert", key |-> k, val |-> v, err |-> "nil",
               flushed |-> Len(mem.MemTable) + 1 >= mem.Threshold,
               inMem |-> InMem(k)]
    /\ UNCHANGED <<impl, pageCount, disk, cache, rootID, status, it, reads, recency, twin>>

LsmDelete(k) ==
    /\ inserts < MaxLsmOps
    /\ \E l \in LSM_Delete(mem, k) : mem' = l
    /\ stored' = Written(k, nilVal)
    /\ inserts' = inserts + 1
    /\ ret' = [op |-> "Delete", key |-> k, val |-> nilVal, err |-> "nil",
               flushed |-> Len(mem.MemTable) + 1 >= mem.Threshold,
               inMem |-> InMem(k)]
    /\ UNCHANGED <<impl, pageCount, disk, cache, rootID, status, it, distinct, reads,
                   recency, twin>>

LsmGet(k) ==
    /\ reads < MaxReads
    /\ reads' = reads + 1
    /\ ret' = [op |-> "Get", key |-> k] @@ LSM_Get(mem, k)
    /\ UNCHANGED <<impl, pageCount, disk, cache, rootID, status, it, stored, distinct,
                   inserts, recency, twin, mem>>

LsmRange(s, e) ==
    /\ reads < MaxReads
    /\ reads' = reads + 1
    /\ ret' = [op |-> "Range", start |-> s, end |-> e, out |-> LSM_Range(mem, s, e),
               err |-> "nil"]
    /\ UNCHANGED <<impl, pageCount, disk, cache, rootID, status, it, stored, distinct,
                   inserts, recency, twin, mem>>

NextLSM ==
    \/ \E k \in LsmKeys, v \in LsmVals : LsmInsert(k, v)
    \/ \E k \in LsmKeys : LsmDelete(k)
    \/ \E k \in LsmKeys : LsmGet(k)
    \/ \E s \in LsmKeys, e \in LsmKeys : LsmRange(s, e)

SpecLSM == InitLSM /\ [][NextLSM]_vars

\* the deepest level that holds a segment, 0 where none does
Depth == Cardinality({i \in 1 .. NumLevels : \E j \in i .. NumLevels : mem.Levels[j] # <<>>})

\* C35: for any sequence of Insert and Delete calls on an LSM tree of any
\* threshold >= 1, Get(k) returns the value of the most recent Insert(k, .)
\* if no Delete(k) came after it, and an error if k was never inserted or
\* was deleted last; also when k was written several times within one
\* memtable before a flush, and across flushes and level compactions.
C35_NewestWins ==
    (impl = "LSM" /\ ret.op = "Get")
        => IF ret.key \in DOMAIN stored /\ stored[ret.key] # nilVal
           THEN ret.err = "nil" /\ ret.val = stored[ret.key]
           ELSE ret.err # "nil"

\* what a Range(s, e) of the LSM tree has to yield, given what was written
RECURSIVE LsmExpected(_, _)
LsmExpected(s, e) ==
    IF s > e THEN <<>>
    ELSE (IF s \in DOMAIN stored /\ stored[s] # nilVal
          THEN <<Entry(s, stored[s])>> ELSE <<>>)
         \o LsmExpected(s + 1, e)

\* C36: for any sequence of Insert and Delete calls, the iterator of
\* Range(s, e) of the LSM tree yields exactly the keys in [s, e] whose most
\* recent operation is an Insert, each once, in ascending key order, each
\* with the value of that Insert, wherever the newest entry of a key is: in
\* the unsorted memtable, in a level-0 segment or in a deeper level.
C36_RangeScan ==
    (impl = "LSM" /\ ret.op = "Range") => ret.out = LsmExpected(ret.start, ret.end)

----------------------------------------------------------------------------
\* The in-memory B-tree of src/src/index/btree/btree.go: a node is a record
\* of its keys, their values and its child nodes; T is the minimum degree.

MaxT == 3
MaxMemKey == 4
MaxMemOps == 5
MemKeys == 1 .. MaxMemKey
MemVals == {<<1>>, <<2>>}

BTreeNode(leaf, keys, values, children) ==
    [Leaf |-> leaf, Keys |-> keys, Values |-> values, Children |-> children]

NewBTree(t) ==
    [kind |-> "btree", T |-> IF t < 2 THEN 2 ELSE t,
     Root |-> BTreeNode(TRUE, <<>>, <<>>, <<>>)]

\* slices.BinarySearch: the first position (from 0) whose key is not below
\* the target, and whether the key there is the target
BinarySearch(keys, key) ==
    With(Cardinality({i \in 1 .. Len(keys) : keys[i] < key}), LAMBDA i :
        [i |-> i, found |-> i < Len(keys) /\ keys[i + 1] = key])

\* slices.Insert(s, i, v) and s[i] = v, positions from 0
SliceInsert(s, i, v) == SubSeq(s, 1, i) \o <<v>> \o SubSeq(s, i + 1, Len(s))

RECURSIVE search(_, _)
search(x, key) ==
    With(BinarySearch(x.Keys, key), LAMBDA r :
        IF r.found THEN [val |-> x.Values[r.i + 1], err |-> FALSE]
        ELSE IF x.Leaf THEN [val |-> NilValue, err |-> TRUE]
        ELSE search(x.Children[r.i + 1], key))

MemBTree_Get(bt, key) == search(bt.Root, key)

splitChild(t, x, i) ==
    With(x.Children[i + 1], LAMBDA y :
        BTreeNode(x.Leaf,
            SliceInsert(x.Keys, i, y.Keys[t]),
            SliceInsert(x.Values, i, y.Values[t]),
            SliceInsert(
                [x.Children EXCEPT ![i + 1] =
                    BTreeNode(y.Leaf, SubSeq(y.Keys, 1, t - 1), SubSeq(y.Values, 1, t - 1),
                              IF y.Leaf THEN y.Children ELSE SubSeq(y.Children, 1, t))],
                i + 1,
                BTreeNode(y.Leaf, SubSeq(y.Keys, t + 1, Len(y.Keys)),
                          SubSeq(y.Values, t + 1, Len(y.Values)),
                          IF y.Leaf THEN <<>>
                          ELSE SubSeq(y.Children, t + 1, Len(y.Children))))))

\* for i < len(x.Keys) && k > x.Keys[i] { i++ }
RECURSIVE childFor(_, _, _)
childFor(keys, k, i) ==
    IF i < Len(keys) /\ k > keys[i + 1] THEN childFor(keys, k, i + 1) ELSE i

RECURSIVE insertNonFull(_, _, _, _)
\* the descent into child i of x, after a split of that child where it is full
descend(t, x, i, k, v) ==
    IF Len(x.Children[i + 1].Keys) = 2 * t - 1
    THEN With(splitChild(t, x, i), LAMBDA s :
            With(IF k > s.Keys[i + 1] THEN i + 1 ELSE i, LAMBDA j :
                [s EXCEPT !.Children[j + 1] = insertNonFull(t, @, k, v)]))
    ELSE [x EXCEPT !.Children[i + 1] = insertNonFull(t, @, k, v)]

insertNonFull(t, x, k, v) ==
    IF x.Leaf
    THEN With(BinarySearch(x.Keys, k), LAMBDA r :
            IF r.found THEN [x EXCEPT !.Values[r.i + 1] = v]
            ELSE [x EXCEPT !.Keys = SliceInsert(@, r.i, k),
                           !.Values = SliceInsert(@, r.i, v)])
    ELSE descend(t, x, childFor(x.Keys, k, 0), k, v)

MemBTree_Insert(bt, key, value) ==
    [bt EXCEPT !.Root =
        insertNonFull(bt.T,
            IF Len(bt.Root.Keys) = 2 * bt.T - 1
            THEN splitChild(bt.T, BTreeNode(FALSE, <<>>, <<>>, <<bt.Root>>), 0)
            ELSE bt.Root,
            key, value)]

\* ---- the in-memory B-tree as a state machine
InitMem ==
    /\ impl = "MemBTree"
    /\ pageCount = 0
    /\ disk = <<>>
    /\ cache = newLRUCache(0)
    /\ rootID = 0
    /\ status = "open"
    /\ it = NoIter
    /\ ret = [op |-> "NewBTree"]
    /\ stored = NoStored
    /\ distinct = TRUE
    /\ inserts = 0
    /\ reads = 0
    /\ recency = <<>>
    /\ twin = NoTwin
    /\ \E t \in 1 .. MaxT : mem = NewBTree(t)

\* the nodes of the subtree under x, parents first
RECURSIVE Nodes(_)
RECURSIVE NodesOfAll(_)
Nodes(x) == <<x>> \o NodesOfAll(x.Children)
NodesOfAll(children) ==
    IF children = <<>> THEN <<>>
    ELSE Nodes(Head(children)) \o NodesOfAll(Tail(children))

\* how many nodes hold key k, and how many keys the tree stores
NodesWith(bt, k) ==
    Cardinality({n \in DOMAIN Nodes(bt.Root) :
                    \E i \in DOMAIN Nodes(bt.Root)[n].Keys : Nodes(bt.Root)[n].Keys[i] = k})
RECURSIVE KeyCount(_)
KeyCount(nodes) ==
    IF nodes = <<>> THEN 0 ELSE Len(Head(nodes).Keys) + KeyCount(Tail(nodes))

MemInsert(k, v) ==
    /\ inserts < MaxMemOps
    /\ mem' = MemBTree_Insert(mem, k, v)
    /\ stored' = (k :> v) @@ stored
    /\ distinct' = (distinct /\ k \notin DOMAIN stored)
    /\ inserts' = inserts + 1
    /\ ret' = [op |-> "Insert", key |-> k, val |-> v, err |-> FALSE,
               was |-> k \in DOMAIN stored,
               inLeaf |-> \E n \in DOMAIN Nodes(mem.Root) :
                             /\ Nodes(mem.Root)[n].Leaf
                             /\ \E i \in DOMAIN Nodes(mem.Root)[n].Keys :
                                   Nodes(mem.Root)[n].Keys[i] = k,
               keysBefore |-> KeyCount(Nodes(mem.Root))]
    /\ UNCHANGED <<impl, pageCount, disk, cache, rootID, status, it, reads, recency, twin>>

MemGet(k) ==
    /\ reads < MaxReads
    /\ reads' = reads + 1
    /\ ret' = [op |-> "Get", key |-> k] @@ MemBTree_Get(mem, k)
    /\ UNCHANGED <<impl, pageCount, disk, cache, rootID, status, it, stored, distinct,
                   inserts, recency, twin, mem>>

NextMem ==
    \/ \E k \in MemKeys, v \in MemVals : MemInsert(k, v)
    \/ \E k \in MemKeys : MemGet(k)

SpecMem == InitMem /\ [][NextMem]_vars

\* C37: in the in-memory B-tree of any minimum degree t >= 2, Insert(k, v2)
\* of a key that is stored, in a leaf or in an internal node, replaces its
\* value: afterwards Get(k) returns v2, k is in exactly one node of the
\* tree, and the tree stores as many keys as before.
C37_Upsert ==
    (impl = "MemBTree" /\ ret.op = "Insert" /\ ret.was)
        => /\ MemBTree_Get(mem, ret.key) = [val |-> ret.val, err |-> FALSE]
           /\ NodesWith(mem, ret.key) = 1
           /\ KeyCount(Nodes(mem.Root)) = ret.keysBefore

----------------------------------------------------------------------------
\* The page header arithmetic of btpage on one page: InitPage, AllocCell
\* and FreeSpace called on pages of any content.

\* free-space-top values a page starts with, up to the largest uint16
Tops == {0, 1, OffCellPtrs, PageSize - 1, PageSize, 300, 65535}

\* a page of kind pt with n cell pointers and free-space-top top, with both
\* links set and a byte of cell content at its end
SomePage(pt, n, top) ==
    With(SetRightmost(SetNextLeaf(SetCellContent(SetNumCells(
            Handle([ZeroPage EXCEPT ![OffType] = pt, ![PageSize - 1] = 9]), n), top), 3), 2),
         LAMBDA h :
            IF n = 0 THEN h
            ELSE IF n = 1 THEN SetCellPtr(h, 0, PageSize - 11)
            ELSE SetCellPtr(SetCellPtr(h, 0, PageSize - 11), 1, PageSize - 22))

InitOnePage ==
    /\ impl = "btpage"
    /\ pageCount = 0
    /\ disk = <<>>
    /\ cache = newLRUCache(0)
    /\ rootID = 0
    /\ status = "open"
    /\ it = NoIter
    /\ ret = [op |-> "new"]
    /\ stored = NoStored
    /\ distinct = TRUE
    /\ inserts = 0
    /\ reads = 0
    /\ recency = <<>>
    /\ twin = NoTwin
    /\ \E pt \in {TypeInternal, TypeLeaf}, n \in 0 .. 2, top \in Tops :
          mem = [kind |-> "page", p |-> SomePage(pt, n, top)]

PageInit(pt) ==
    /\ inserts < MaxInserts
    /\ inserts' = inserts + 1
    /\ mem' = [mem EXCEPT !.p = InitPage(@, pt)]
    /\ ret' = [op |-> "InitPage", kind |-> pt, before |-> mem.p.b]
    /\ UNCHANGED <<impl, pageCount, disk, cache, rootID, status, it, stored, distinct, reads,
                   recency, twin>>

PageAlloc(size) ==
    /\ inserts < MaxInserts
    /\ inserts' = inserts + 1
    /\ mem' = [mem EXCEPT !.p = AllocCell(@, size)]
    /\ ret' = [op |-> "AllocCell", size |-> size, top |-> AllocTop(mem.p.b, size),
               before |-> mem.p.b]
    /\ UNCHANGED <<impl, pageCount, disk, cache, rootID, status, it, stored, distinct, reads,
                   recency, twin>>

PageFree(n) ==
    /\ reads < MaxReads
    /\ reads' = reads + 1
    /\ ret' = [op |-> "FreeSpace", n |-> n, free |-> FreeSpace(mem.p.b, n),
               before |-> mem.p.b]
    /\ UNCHANGED <<impl, pageCount, disk, cache, rootID, status, it, stored, distinct,
                   inserts, recency, twin, mem>>

\* sizes from nothing to the whole space below the top, and one beyond it
NextOnePage ==
    \/ \E pt \in {TypeInternal, TypeLeaf} : PageInit(pt)
    \/ \E size \in {0, 1, internalCellSize, CellContent(mem.p.b),
                    CellContent(mem.p.b) + 1} : PageAlloc(size)
    \/ \E n \in 0 .. 3 : PageFree(n)

SpecOnePage == InitOnePage /\ [][NextOnePage]_vars

\* the positions of a page outside the w bytes from o on
Outside(o, w) == {i \in Pos : i < o \/ i >= o + w}

\* C38: on a page with free-space-top T and a size from 0 to T, AllocCell
\* sets the free-space-top to T - size, returns T - size and changes no
\* other header field and no cell pointer; FreeSpace(p, n) is the
\* free-space-top less 13 + 2n; after InitPage(p, kind) the page has that
\* kind, cell count 0, the page size as free-space-top, next-leaf
\* 0xFFFFFFFF and every other byte zero.
C38_PageArithmetic ==
    /\ (impl = "btpage" /\ ret.op = "AllocCell" /\ ret.size <= CellContent(ret.before))
          => /\ CellContent(mem.p.b) = CellContent(ret.before) - ret.size
             /\ ret.top = CellContent(ret.before) - ret.size
             /\ \A i \in Outside(OffCellContent, 2) : mem.p.b[i] = ret.before[i]
             /\ mem.p.ok
    /\ (impl = "btpage" /\ ret.op = "FreeSpace")
          => ret.free = CellContent(mem.p.b) - (13 + 2 * ret.n)
    /\ (impl = "btpage" /\ ret.op = "InitPage")
          => /\ mem.p.b[OffType] = ret.kind
             /\ NumCells(mem.p.b) = 0
             /\ CellContent(mem.p.b) = PageSize
             /\ \A i \in OffNextLeaf .. (OffNextLeaf + 3) : mem.p.b[i] = 255
             /\ \A i \in Pos \ ({OffType, OffCellContent, OffCellContent + 1}
                                 \cup (OffNextLeaf .. (OffNextLeaf + 3))) : mem.p.b[i] = 0

\* an AllocCell of a cell's size on a page that holds cell pointers
C38_Witness ==
    /\ impl = "btpage" /\ ret.op = "AllocCell"
    /\ ret.size = internalCellSize /\ ret.size < CellContent(ret.before)
    /\ NumCells(ret.before) = 2
    /\ CellPtr(mem.p.b, 1) = PageSize - 22

====
